---------------------------- MODULE Spec2Model ----------------------------
(***************************************************************************)
(* Model of src/src/database_mcp/mcp_server.py: the configuration loader   *)
(* (init_config), the module-level start-up (schema fetch), the lifespan   *)
(* connection test, the session context (DbContext) and the dispatch       *)
(* operations registered on the FastMCP server.                            *)
(*                                                                         *)
(* Python strings are TLA+ strings; every other Python value is a tagged   *)
(* record (PyNone, PyStr, PyInt, PyList, PyDict, PyObj).  A dict is the    *)
(* sequence of its <<key, value>> pairs in insertion order.  The external  *)
(* query engine (legion_query_runner.QueryRunner) is not part of the       *)
(* repository: each of its calls is a nondeterministic choice between a    *)
(* result and an exception.                                                *)
(***************************************************************************)
EXTENDS Integers, Sequences, FiniteSets, TLC

(***************************************************************************)
(* Strings                                                                 *)
(***************************************************************************)
UpperAlpha == "ABCDEFGHIJKLMNOPQRSTUVWXYZ"
LowerAlpha == "abcdefghijklmnopqrstuvwxyz"
Digits == "0123456789"

CharAt(s, i) == SubSeq(s, i, i)

CharsOf(s) == {CharAt(s, i) : i \in 1..Len(s)}

UpperChars == CharsOf(UpperAlpha)
DigitChars == CharsOf(Digits)
AlnumChars == UpperChars \cup CharsOf(LowerAlpha) \cup DigitChars

\* str.isalnum() of one ASCII character
IsAlnum(c) == c \in AlnumChars

\* str.isdigit() of one ASCII character
IsDigit(c) == c \in DigitChars

\* the lower-case letter of every upper-case letter
LowerOf == [c \in UpperChars |->
              CharAt(LowerAlpha, CHOOSE i \in 1..Len(UpperAlpha) : CharAt(UpperAlpha, i) = c)]

LowerChar(c) == IF c \in UpperChars THEN LowerOf[c] ELSE c

RECURSIVE Lower(_)
\* str.lower()
Lower(s) == IF s = "" THEN "" ELSE LowerChar(Head(s)) \o Lower(Tail(s))

RECURSIVE FilterAlnum(_)
\* ''.join(c for c in s if c.isalnum())
FilterAlnum(s) ==
    IF s = "" THEN ""
    ELSE (IF IsAlnum(Head(s)) THEN Head(s) ELSE "") \o FilterAlnum(Tail(s))

\* s[:n]
Prefix(s, n) == SubSeq(s, 1, IF n < Len(s) THEN n ELSE Len(s))

\* xs[:n] of a list
Take(xs, n) == SubSeq(xs, 1, IF n < Len(xs) THEN n ELSE Len(xs))

\* s[i-1:j], clipped to the string like a Python slice
Slice(s, i, j) ==
    IF i > Len(s) THEN "" ELSE SubSeq(s, i, IF j < Len(s) THEN j ELSE Len(s))

\* sub in s
Contains(s, sub) ==
    \E i \in 1..(Len(s) - Len(sub) + 1) : SubSeq(s, i, i + Len(sub) - 1) = sub

StartsWith(s, pre) == Len(pre) <= Len(s) /\ SubSeq(s, 1, Len(pre)) = pre

RECURSIVE NatToStr(_)
NatToStr(n) ==
    IF n < 10 THEN CharAt(Digits, n + 1)
    ELSE NatToStr(n \div 10) \o CharAt(Digits, (n % 10) + 1)

\* str(n) of an int
IntToStr(n) == IF n < 0 THEN "-" \o NatToStr(-n) ELSE NatToStr(n)

RECURSIVE Join(_, _)
\* sep.join(xs) of a list of strings
Join(sep, xs) ==
    IF xs = <<>> THEN ""
    ELSE IF Len(xs) = 1 THEN xs[1]
    ELSE xs[1] \o sep \o Join(sep, Tail(xs))

RECURSIVE Repeat(_, _)
\* s * n
Repeat(s, n) == IF n <= 0 THEN "" ELSE s \o Repeat(s, n - 1)

(***************************************************************************)
(* Python values                                                           *)
(***************************************************************************)
PyNone == [t |-> "none"]
PyStr(s) == [t |-> "str", s |-> s]
PyInt(n) == [t |-> "int", n |-> n]
PyBool(b) == [t |-> "bool", b |-> b]
PyList(xs) == [t |-> "list", items |-> xs]
PyDict(kv) == [t |-> "dict", kv |-> kv]
\* any other object (a Decimal, a datetime, ...): it has a str() and json.dumps
\* rejects it
PyObj(r) == [t |-> "obj", repr |-> r]

IsDict(v) == v.t = "dict"
IsList(v) == v.t = "list"
IsStr(v) == v.t = "str"

\* bool(v)
Truthy(v) ==
    CASE v.t = "none" -> FALSE
      [] v.t = "str" -> v.s # ""
      [] v.t = "int" -> v.n # 0
      [] v.t = "bool" -> v.b
      [] v.t = "list" -> v.items # <<>>
      [] v.t = "dict" -> v.kv # <<>>
      [] OTHER -> TRUE

\* key in d
DictHas(d, k) == \E i \in 1..Len(d.kv) : d.kv[i][1] = k

\* d.get(k, default)
DictGet(d, k, default) ==
    IF DictHas(d, k)
    THEN d.kv[CHOOSE i \in 1..Len(d.kv) : d.kv[i][1] = k][2]
    ELSE default

\* d[k] = v: an existing key keeps its place, a new key goes last
DictSet(d, k, v) ==
    IF DictHas(d, k)
    THEN PyDict([i \in 1..Len(d.kv) |-> IF d.kv[i][1] = k THEN <<k, v>> ELSE d.kv[i]])
    ELSE PyDict(Append(d.kv, <<k, v>>))

\* str(v) of a value an f-string or str() renders (a container's str is
\* not needed by the operations modelled here)
\* type(v).__name__
TypeName(v) ==
    CASE v.t = "none" -> "NoneType"
      [] v.t = "obj" -> "Decimal"
      [] OTHER -> v.t

Str(v) ==
    CASE v.t = "none" -> "None"
      [] v.t = "str" -> v.s
      [] v.t = "int" -> IntToStr(v.n)
      [] v.t = "bool" -> IF v.b THEN "True" ELSE "False"
      [] v.t = "obj" -> v.repr
      [] OTHER -> "<container>"

(***************************************************************************)
(* Exceptions and call outcomes                                            *)
(***************************************************************************)
Exc(type, msg) == [type |-> type, msg |-> msg]
Returned(v) == [raised |-> FALSE, val |-> v]
Raised(e) == [raised |-> TRUE, exc |-> e]

(***************************************************************************)
(* json.dumps and json.loads (the standard library's, on the values above) *)
(***************************************************************************)
Quote == "\""
Backslash == "\\"
Newline == "\n"

RECURSIVE JsonEscape(_)
\* the body of a JSON string literal for s
JsonEscape(s) ==
    IF s = "" THEN ""
    ELSE (CASE Head(s) = Quote -> Backslash \o Quote
            [] Head(s) = Backslash -> Backslash \o Backslash
            [] Head(s) = Newline -> Backslash \o "n"
            [] OTHER -> Head(s)) \o JsonEscape(Tail(s))

JsonString(s) == Quote \o JsonEscape(s) \o Quote

RECURSIVE JsonSerializable(_)
\* json.dumps(v) raises TypeError on an object it has no encoding for
JsonSerializable(v) ==
    CASE v.t = "obj" -> FALSE
      [] v.t = "list" -> \A i \in 1..Len(v.items) : JsonSerializable(v.items[i])
      [] v.t = "dict" -> \A i \in 1..Len(v.kv) : JsonSerializable(v.kv[i][2])
      [] OTHER -> TRUE

RECURSIVE JsonDumps(_)
\* json.dumps(v): separators ", " and ": ", keys in insertion order
JsonDumps(v) ==
    CASE v.t = "none" -> "null"
      [] v.t = "bool" -> (IF v.b THEN "true" ELSE "false")
      [] v.t = "int" -> IntToStr(v.n)
      [] v.t = "str" -> JsonString(v.s)
      [] v.t = "list" ->
            "[" \o Join(", ", [i \in 1..Len(v.items) |-> JsonDumps(v.items[i])]) \o "]"
      [] v.t = "dict" ->
            "{" \o Join(", ", [i \in 1..Len(v.kv) |->
                       JsonString(v.kv[i][1]) \o ": " \o JsonDumps(v.kv[i][2])]) \o "}"
      [] OTHER -> "<not serializable>"

RECURSIVE JsonDumpsIndent(_, _, _)
\* json.dumps(v, indent=n), at nesting depth level
JsonDumpsIndent(v, n, level) ==
    LET pad == Newline \o Repeat(" ", n * (level + 1))
        close == Newline \o Repeat(" ", n * level)
    IN  CASE v.t = "list" /\ v.items # <<>> ->
                "[" \o pad
                \o Join("," \o pad, [i \in 1..Len(v.items) |->
                        JsonDumpsIndent(v.items[i], n, level + 1)])
                \o close \o "]"
          [] v.t = "dict" /\ v.kv # <<>> ->
                "{" \o pad
                \o Join("," \o pad, [i \in 1..Len(v.kv) |->
                        JsonString(v.kv[i][1]) \o ": "
                        \o JsonDumpsIndent(v.kv[i][2], n, level + 1)])
                \o close \o "}"
          [] OTHER -> JsonDumps(v)

\* the character at i, "" past the end
Peek(s, i) == IF i >= 1 /\ i <= Len(s) THEN CharAt(s, i) ELSE ""

RECURSIVE SkipWs(_, _)
\* the first position at or after i that holds no white space
SkipWs(s, i) == IF Peek(s, i) \in {" ", Newline} THEN SkipWs(s, i + 1) ELSE i

ParseFail == [ok |-> FALSE, val |-> PyNone, next |-> 0]
ParseOk(v, next) == [ok |-> TRUE, val |-> v, next |-> next]

DigitValueOf == [c \in DigitChars |-> (CHOOSE i \in 1..Len(Digits) : CharAt(Digits, i) = c) - 1]

DigitValue(c) == DigitValueOf[c]

RECURSIVE ParseDigits(_, _, _)
ParseDigits(s, i, acc) ==
    IF IsDigit(Peek(s, i)) THEN ParseDigits(s, i + 1, acc * 10 + DigitValue(Peek(s, i)))
    ELSE ParseOk(PyInt(acc), i)

Negated(r) == ParseOk(PyInt(-r.val.n), r.next)

ParseNumber(s, i) ==
    IF Peek(s, i) = "-"
    THEN IF IsDigit(Peek(s, i + 1))
         THEN Negated(ParseDigits(s, i + 1, 0))
         ELSE ParseFail
    ELSE ParseDigits(s, i, 0)

RECURSIVE ParseString(_, _, _)
\* the string literal whose opening quote is just before i
ParseString(s, i, acc) ==
    CASE Peek(s, i) = "" -> ParseFail
      [] Peek(s, i) = Quote -> ParseOk(PyStr(acc), i + 1)
      [] Peek(s, i) = Backslash ->
            (CASE Peek(s, i + 1) = Quote -> ParseString(s, i + 2, acc \o Quote)
               [] Peek(s, i + 1) = Backslash -> ParseString(s, i + 2, acc \o Backslash)
               [] Peek(s, i + 1) = "n" -> ParseString(s, i + 2, acc \o Newline)
               [] OTHER -> ParseFail)
      [] Peek(s, i) = Newline -> ParseFail
      [] OTHER -> ParseString(s, i + 1, acc \o Peek(s, i))

RECURSIVE ParseValue(_, _)
RECURSIVE ParseValueAt(_, _)
RECURSIVE ParseArray(_, _)
RECURSIVE ParseItems(_, _, _)
RECURSIVE ItemsNext(_, _, _)
RECURSIVE ItemsSep(_, _, _)
RECURSIVE ParseObject(_, _)
RECURSIVE ParseMembers(_, _, _)
RECURSIVE MemberColon(_, _, _)
RECURSIVE MemberValue(_, _, _, _)
RECURSIVE MemberNext(_, _, _, _)
RECURSIVE MemberSep(_, _, _)

\* the JSON value that starts at or after i
ParseValue(s, i) == ParseValueAt(s, SkipWs(s, i))

\* the JSON value that starts at j
ParseValueAt(s, j) ==
    CASE Peek(s, j) = Quote -> ParseString(s, j + 1, "")
      [] Peek(s, j) = "[" -> ParseArray(s, SkipWs(s, j + 1))
      [] Peek(s, j) = "{" -> ParseObject(s, SkipWs(s, j + 1))
      [] Peek(s, j) = "-" \/ IsDigit(Peek(s, j)) -> ParseNumber(s, j)
      [] Slice(s, j, j + 3) = "null" -> ParseOk(PyNone, j + 4)
      [] Slice(s, j, j + 3) = "true" -> ParseOk(PyBool(TRUE), j + 4)
      [] Slice(s, j, j + 4) = "false" -> ParseOk(PyBool(FALSE), j + 5)
      [] OTHER -> ParseFail

\* an array whose "[" is before k
ParseArray(s, k) ==
    IF Peek(s, k) = "]" THEN ParseOk(PyList(<<>>), k + 1) ELSE ParseItems(s, k, <<>>)

\* the items of an array from i on, acc being the items before
ParseItems(s, i, acc) == ItemsNext(s, acc, ParseValue(s, i))

\* after the item r
ItemsNext(s, acc, r) ==
    IF ~r.ok THEN ParseFail ELSE ItemsSep(s, Append(acc, r.val), SkipWs(s, r.next))

\* the "," or "]" at k
ItemsSep(s, acc, k) ==
    CASE Peek(s, k) = "," -> ParseItems(s, k + 1, acc)
      [] Peek(s, k) = "]" -> ParseOk(PyList(acc), k + 1)
      [] OTHER -> ParseFail

\* an object whose "{" is before k
ParseObject(s, k) ==
    IF Peek(s, k) = "}" THEN ParseOk(PyDict(<<>>), k + 1) ELSE ParseMembers(s, k, PyDict(<<>>))

\* the members of an object from i on, acc being the members before
ParseMembers(s, i, acc) ==
    IF Peek(s, SkipWs(s, i)) = Quote
    THEN MemberColon(s, acc, ParseString(s, SkipWs(s, i) + 1, ""))
    ELSE ParseFail

\* after the key
MemberColon(s, acc, key) ==
    IF ~key.ok THEN ParseFail ELSE MemberValue(s, acc, key.val.s, SkipWs(s, key.next))

\* the ":" at k and the value after it
MemberValue(s, acc, key, k) ==
    IF Peek(s, k) = ":" THEN MemberNext(s, acc, key, ParseValue(s, k + 1))
    ELSE ParseFail

\* after the value r of key
MemberNext(s, acc, key, r) ==
    IF ~r.ok THEN ParseFail
    ELSE MemberSep(s, DictSet(acc, key, r.val), SkipWs(s, r.next))

\* the "," or "}" at m
MemberSep(s, acc, m) ==
    CASE Peek(s, m) = "," -> ParseMembers(s, m + 1, acc)
      [] Peek(s, m) = "}" -> ParseOk(acc, m + 1)
      [] OTHER -> ParseFail

\* the value json.loads returns for the parse r of s, or JSONDecodeError
LoadsResult(s, r) ==
    IF r.ok /\ SkipWs(s, r.next) > Len(s)
    THEN Returned(r.val)
    ELSE Raised(Exc("JSONDecodeError", "Expecting value"))

\* json.loads(s) (numbers are integers, string escapes are those JsonEscape
\* writes)
JsonLoads(s) == LoadsResult(s, ParseValue(s, 1))

(***************************************************************************)
(* DbConfig, the registry and the configuration loader                     *)
(***************************************************************************)
\* the dataclass DbConfig; schema and query_runner default to None
DbConfig(id, db_type, configuration, description) ==
    [id |-> id, db_type |-> db_type, configuration |-> configuration,
     description |-> description, schema |-> PyNone, query_runner |-> PyNone]

\* the connection handle QueryRunner(db_type=..., configuration=...) returns;
\* h numbers the constructions of one load
QueryRunner(h, db_type, configuration) ==
    [t |-> "runner", h |-> h, db_type |-> db_type, configuration |-> configuration]

\* A registry (Dict[str, DbConfig]) is the sequence of its values in key
\* order; every value is stored under its own id.
RegIds(reg) == [i \in 1..Len(reg) |-> reg[i].id]

\* db_id in db_configs
RegHas(reg, id) == \E i \in 1..Len(reg) : reg[i].id = id

\* db_configs[db_id]
RegGet(reg, id) == reg[CHOOSE i \in 1..Len(reg) : reg[i].id = id]

\* db_configs[db_id] = db_config: a key already present keeps its place and
\* gets the new value
RegSet(reg, cfg) ==
    IF RegHas(reg, cfg.id)
    THEN [i \in 1..Len(reg) |-> IF reg[i].id = cfg.id THEN cfg ELSE reg[i]]
    ELSE Append(reg, cfg)

\* os.getenv(name, default)
Getenv(env, name, default) == IF env[name] = PyNone THEN default ELSE env[name].s

\* the outcome of init_config: the registry or the exception, and the
\* connection handles constructed on the way
Loaded(reg, made) == [raised |-> FALSE, val |-> reg, made |-> made]
LoadError(e, made) == [raised |-> TRUE, exc |-> e, made |-> made]

\* line 81: the element is a dict that has every required field
ValidElement(config) ==
    /\ IsDict(config)
    /\ DictHas(config, "db_type")
    /\ DictHas(config, "configuration")
    /\ DictHas(config, "description")

\* a faulty variant of DerivedId: the description is not filtered
DerivedIdUnfiltered(db_type, description, i) ==
    Lower(Prefix(db_type, 2)) \o "_" \o Lower(Prefix(description, 8)) \o "_" \o IntToStr(i)

\* the id init_config derives for the element at zero-based position i
DerivedId(db_type, description, i) ==
    Lower(Prefix(db_type, 2)) \o "_"
    \o Lower(Prefix(FilterAlnum(description), 8)) \o "_" \o IntToStr(i)

\* lines 85-90: the id of the element at zero-based position i; db_type,
\* description and id are strings wherever an element has them
ElementId(config, i) ==
    IF Truthy(DictGet(config, "id", PyStr("")))
    THEN DictGet(config, "id", PyStr("")).s
    ELSE DerivedId(DictGet(config, "db_type", PyNone).s,
                   DictGet(config, "description", PyNone).s, i)

\* line 100: the connection handle of an element, the h-th constructed
ElementRunner(config, h) ==
    QueryRunner(h, DictGet(config, "db_type", PyNone).s,
                DictGet(config, "configuration", PyNone))

\* lines 92-100: the DbConfig of the element at position i with its handle
ElementConfig(config, i, h) ==
    [DbConfig(ElementId(config, i), DictGet(config, "db_type", PyNone).s,
              DictGet(config, "configuration", PyNone),
              DictGet(config, "description", PyNone).s)
       EXCEPT !.query_runner = ElementRunner(config, h)]

CannotConstruct == Exc("Exception", "cannot construct QueryRunner")

RECURSIVE LoadLoop(_, _, _, _, _)
\* the loop over enumerate(db_configs_list), from zero-based position i;
\* the failAt-th construction of a QueryRunner raises (0: none does)
LoadLoop(list, i, reg, made, failAt) ==
    IF i >= Len(list) THEN Loaded(reg, made)
    ELSE IF ~ValidElement(list[i + 1])
    THEN LoadError(Exc("ValueError",
             "Each DB_CONFIG must contain db_type, configuration, and description"), made)
    ELSE IF failAt = Len(made) + 1 THEN LoadError(CannotConstruct, made)
    ELSE LoadLoop(list, i + 1,
                  RegSet(reg, ElementConfig(list[i + 1], i, Len(made) + 1)),
                  Append(made, ElementRunner(list[i + 1], Len(made) + 1)), failAt)

\* json.loads(v) if isinstance(v, str) else v
DecodeIfStr(v) == IF IsStr(v) THEN JsonLoads(v.s) ELSE Returned(v)

\* a faulty variant of LoadDecoded: an empty array is accepted
LoadDecodedLenient(decoded, failAt) ==
    IF decoded.raised THEN LoadError(decoded.exc, <<>>)
    ELSE IF ~IsList(decoded.val)
    THEN LoadError(Exc("ValueError", "DB_CONFIGS must be a non-empty JSON array"), <<>>)
    ELSE LoadLoop(decoded.val.items, 0, <<>>, <<>>, failAt)

\* lines 76-104: the registry of a decoded DB_CONFIGS value
LoadDecoded(decoded, failAt) ==
    IF decoded.raised THEN LoadError(decoded.exc, <<>>)
    ELSE IF ~IsList(decoded.val) \/ Len(decoded.val.items) = 0
    THEN LoadError(Exc("ValueError", "DB_CONFIGS must be a non-empty JSON array"), <<>>)
    ELSE LoadLoop(decoded.val.items, 0, <<>>, <<>>, failAt)

\* lines 73-107: the multi-database branch
LoadMulti(db_configs_str, failAt) == LoadDecoded(DecodeIfStr(db_configs_str), failAt)

\* lines 118-119: a decoded value that is a string is decoded once more
DecodeAgain(first) ==
    IF ~first.raised /\ IsStr(first.val) THEN JsonLoads(first.val.s) ELSE first

\* a faulty variant of LoadOne: the id keeps the case of db_type
LoadOneKeepCase(db_type, decoded, failAt) ==
    IF decoded.raised THEN LoadError(decoded.exc, <<>>)
    ELSE IF ~Truthy(db_type) \/ ~Truthy(decoded.val)
    THEN LoadError(Exc("ValueError", "Database type and configuration are required"), <<>>)
    ELSE IF failAt = 1 THEN LoadError(CannotConstruct, <<>>)
    ELSE Loaded(<<[DbConfig(db_type.s \o "_default", db_type.s, decoded.val,
                            "Default database connection")
                     EXCEPT !.query_runner = QueryRunner(1, db_type.s, decoded.val)]>>,
                <<QueryRunner(1, db_type.s, decoded.val)>>)

\* lines 124-141: the registry of one db_type and its decoded configuration
LoadOne(db_type, decoded, failAt) ==
    IF decoded.raised THEN LoadError(decoded.exc, <<>>)
    ELSE IF ~Truthy(db_type) \/ ~Truthy(decoded.val)
    THEN LoadError(Exc("ValueError", "Database type and configuration are required"), <<>>)
    ELSE IF failAt = 1 THEN LoadError(CannotConstruct, <<>>)
    ELSE Loaded(<<[DbConfig(Lower(db_type.s) \o "_default", db_type.s, decoded.val,
                            "Default database connection")
                     EXCEPT !.query_runner = QueryRunner(1, db_type.s, decoded.val)]>>,
                <<QueryRunner(1, db_type.s, decoded.val)>>)

\* lines 109-141: the single-database fallback
LoadSingle(db_type, db_config_str, env, failAt) ==
    LoadOne(IF ~Truthy(db_type) THEN PyStr(Getenv(env, "DB_TYPE", "pg")) ELSE db_type,
            DecodeAgain(DecodeIfStr(IF ~Truthy(db_config_str)
                                    THEN PyStr(Getenv(env, "DB_CONFIG", ""))
                                    ELSE db_config_str)),
            failAt)

\* lines 72-141, db_configs_str being what lines 41-70 made of the sources
LoadFrom(inp, db_configs_str, failAt) ==
    IF Truthy(db_configs_str) THEN LoadMulti(db_configs_str, failAt)
    ELSE LoadSingle(IF inp.testing /\ ~Truthy(inp.db_type)
                    THEN PyStr(Getenv(inp.env, "DB_TYPE", ""))
                    ELSE inp.db_type,
                    IF inp.testing /\ ~Truthy(inp.db_config)
                    THEN PyStr(Getenv(inp.env, "DB_CONFIG", ""))
                    ELSE inp.db_config,
                    inp.env, failAt)

\* lines 51-53 and 60-66: db_configs_str, the explicit value or DB_CONFIGS
ResolvedConfigs(inp) ==
    IF ~Truthy(inp.db_configs) THEN PyStr(Getenv(inp.env, "DB_CONFIGS", ""))
    ELSE inp.db_configs

\* init_config: inp holds the explicit arguments (the command line's, or the
\* test_ parameters when inp.testing) and the environment
init_config(inp, failAt) == LoadFrom(inp, ResolvedConfigs(inp), failAt)

(***************************************************************************)
(* The session context and the query helper                                *)
(***************************************************************************)
\* a faulty variant of get_default_query_runner: the last entry, not the first
get_last_query_runner(db_configs) ==
    IF db_configs = <<>>
    THEN Raised(Exc("ValueError", "No database connections available"))
    ELSE Returned(db_configs[Len(db_configs)].query_runner)

\* DbContext.get_default_query_runner
get_default_query_runner(db_configs) ==
    IF db_configs = <<>>
    THEN Raised(Exc("ValueError", "No database connections available"))
    ELSE Returned(RegGet(db_configs, RegIds(db_configs)[1]).query_runner)

\* one call of a method of a connection handle, and what the engine answered
EngineCall(runner, method, arg, out) ==
    [h |-> runner.h, method |-> method, arg |-> arg, out |-> out]

\* a faulty variant of HistoryEntry: the description is left out
HistoryEntryBare(db_id, description, query) == "[" \o db_id \o "] " \o query

\* the entry _execute_and_get_results appends to query_history
HistoryEntry(db_id, description, query) ==
    "[" \o db_id \o "] [" \o description \o "] " \o query

AttributeError(v, attr) ==
    Exc("AttributeError", "'" \o TypeName(v) \o "' object has no attribute '" \o attr \o "'")

\* col.get('friendly_name', col.get('name', ''))
ColumnName(col) == DictGet(col, "friendly_name", DictGet(col, "name", PyStr("")))

\* [col.get('friendly_name', col.get('name', '')) for col in columns]
ColumnNames(columns) == [i \in 1..Len(columns.items) |-> ColumnName(columns.items[i])]

\* a faulty variant of ProcessedRow: the row is read under the displayed names
ProcessedRowDisplayed(row_dict, columns) ==
    [i \in 1..Len(columns.items) |->
        DictGet(row_dict, Str(ColumnName(columns.items[i])), PyNone)]

\* [row_dict.get(col.get('name', '')) for col in columns]
ProcessedRow(row_dict, columns) ==
    [i \in 1..Len(columns.items) |->
        DictGet(row_dict, Str(DictGet(columns.items[i], "name", PyStr(""))), PyNone)]

\* the first item of a list that is no dict
FirstNonDict(xs) == xs[CHOOSE i \in 1..Len(xs) : ~IsDict(xs[i]) /\ \A j \in 1..(i - 1) : IsDict(xs[j])]

\* lines 396-421: the formatted result for the columns and rows of an engine
\* result, or the exception their extraction raises
FormatParts(columns, rows, db_id, db_config) ==
    IF ~IsList(columns)
    THEN Raised(Exc("TypeError", "'" \o TypeName(columns) \o "' object is not iterable"))
    ELSE IF \E i \in 1..Len(columns.items) : ~IsDict(columns.items[i])
    THEN Raised(AttributeError(FirstNonDict(columns.items), "get"))
    ELSE IF ~IsList(rows)
    THEN Raised(Exc("TypeError", "object of type '" \o TypeName(rows) \o "' has no len()"))
    ELSE IF \E i \in 1..Len(rows.items) : ~IsDict(rows.items[i])
    THEN Raised(AttributeError(FirstNonDict(rows.items), "get"))
    ELSE Returned([column_names |-> ColumnNames(columns),
                   columns |-> columns,
                   rows |-> [i \in 1..Len(rows.items) |-> ProcessedRow(rows.items[i], columns)],
                   raw_rows |-> rows,
                   row_count |-> Len(rows.items),
                   database |-> [id |-> db_id, description |-> db_config.description,
                                 db_type |-> db_config.db_type]])

\* lines 395-421 of _execute_and_get_results
FormatResult(result, db_id, db_config) ==
    IF ~IsDict(result) THEN Raised(AttributeError(result, "get"))
    ELSE FormatParts(DictGet(result, "columns", PyList(<<>>)),
                     DictGet(result, "rows", PyList(<<>>)), db_id, db_config)

\* the session fields a query call writes
Session(a_last_query, a_last_result, a_query_history) ==
    [last_query |-> a_last_query, last_result |-> a_last_result,
     query_history |-> a_query_history]

\* a faulty variant of RecordQuery: last_query keeps the first query of the
\* session
RecordQueryFirst(ctx, query, result, db_id, db_config) ==
    Session(IF ctx.last_query = PyNone THEN PyStr(query) ELSE ctx.last_query, result,
            Append(ctx.query_history, HistoryEntry(db_id, db_config.description, query)))

\* lines 390-393: the update of the context after run_query returned
RecordQuery(ctx, query, result, db_id, db_config) ==
    Session(PyStr(query), result,
            Append(ctx.query_history, HistoryEntry(db_id, db_config.description, query)))

\* a faulty variant of RunOn: the query is recorded only after its result has
\* been formatted
RunOnFormatted(db_config, ctx, query, db_id, out) ==
    IF out.raised
    THEN [out |-> out, ctx |-> ctx,
          calls |-> <<EngineCall(db_config.query_runner, "run_query", query, out)>>]
    ELSE [out |-> FormatResult(out.val, db_id, db_config),
          ctx |-> IF FormatResult(out.val, db_id, db_config).raised THEN ctx
                  ELSE RecordQuery(ctx, query, out.val, db_id, db_config),
          calls |-> <<EngineCall(db_config.query_runner, "run_query", query, out)>>]

\* lines 384-421: the query on a registered database, the engine answering
\* run_query with out
RunOn(db_config, ctx, query, db_id, out) ==
    IF out.raised
    THEN [out |-> out, ctx |-> ctx,
          calls |-> <<EngineCall(db_config.query_runner, "run_query", query, out)>>]
    ELSE [out |-> FormatResult(out.val, db_id, db_config),
          ctx |-> RecordQuery(ctx, query, out.val, db_id, db_config),
          calls |-> <<EngineCall(db_config.query_runner, "run_query", query, out)>>]

\* a faulty variant of ExecuteAndGetResults: an unknown id falls back to the
\* first database
ExecuteOnDefault(db_configs, ctx, query, db_id, out) ==
    IF db_configs = <<>>
    THEN [out |-> Raised(Exc("ValueError", "Invalid database ID: " \o db_id)),
          ctx |-> ctx, calls |-> <<>>]
    ELSE RunOn(IF RegHas(db_configs, db_id) THEN RegGet(db_configs, db_id) ELSE db_configs[1],
               ctx, query, db_id, out)

\* _execute_and_get_results(query, ctx, db_id): the outcome, the context
\* after it and the engine calls made
ExecuteAndGetResults(db_configs, ctx, query, db_id, out) ==
    IF ~RegHas(db_configs, db_id)
    THEN [out |-> Raised(Exc("ValueError", "Invalid database ID: " \o db_id)),
          ctx |-> ctx, calls |-> <<>>]
    ELSE RunOn(RegGet(db_configs, db_id), ctx, query, db_id, out)

\* " | ".join(names): every item must be a str
JoinValues(sep, names) ==
    IF \E i \in 1..Len(names) : ~IsStr(names[i])
    THEN Raised(Exc("TypeError", "sequence item: expected str instance"))
    ELSE Returned(Join(sep, [i \in 1..Len(names) |-> names[i].s]))

\* the rows of a markdown table: " | ".join(str(cell) for cell in row)
TableRows(rows) ==
    [i \in 1..Len(rows) |-> Join(" | ", [j \in 1..Len(rows[i]) |-> Str(rows[i][j])])]

DisplayRows == 10

\* a faulty variant of MoreRows: the suffix is added from the tenth row on
MoreRowsFromTenth(row_count) ==
    IF row_count >= DisplayRows
    THEN "\n\n... and " \o IntToStr(row_count - DisplayRows)
         \o " more rows (total: " \o IntToStr(row_count) \o ")"
    ELSE ""

\* lines 444-445: the suffix for the rows that are not shown
MoreRows(row_count) ==
    IF row_count > DisplayRows
    THEN "\n\n... and " \o IntToStr(row_count - DisplayRows)
         \o " more rows (total: " \o IntToStr(row_count) \o ")"
    ELSE ""

\* lines 431-447: the text for a formatted result and its header line
RenderTable(result, header) ==
    IF header.raised THEN header
    ELSE Returned("Database: " \o result.database.description
                  \o " (Type: " \o result.database.db_type \o ")" \o "\n\n"
                  \o "Query executed on Database: " \o result.database.description
                  \o "\n\n" \o header.val \o "\n"
                  \o Join(" | ", [i \in 1..Len(result.column_names) |-> "---"]) \o "\n"
                  \o Join("\n", TableRows(Take(result.rows, DisplayRows)))
                  \o MoreRows(result.row_count))

\* lines 430-447 of execute_query
RenderQueryResult(result) == RenderTable(result, JoinValues(" | ", result.column_names))

\* the except clauses of execute_query
QueryError(e) ==
    IF e.type = "ValueError" /\ Contains(e.msg, "Invalid database ID")
    THEN "Error: " \o e.msg
    ELSE "Error executing query: " \o e.msg

\* the text execute_query returns for the outcome of its try block
QueryText(text) == IF text.raised THEN QueryError(text.exc) ELSE text.val

\* a faulty variant of QueryResponse: execute_query without its except clauses
QueryResponseUncaught(r) ==
    [out |-> IF r.out.raised THEN r.out
             ELSE Returned(PyStr(QueryText(RenderQueryResult(r.out.val)))),
     ctx |-> r.ctx, calls |-> r.calls]

\* execute_query after _execute_and_get_results did r
QueryResponse(r) ==
    [out |-> Returned(PyStr(QueryText(IF r.out.raised THEN r.out
                                      ELSE RenderQueryResult(r.out.val)))),
     ctx |-> r.ctx, calls |-> r.calls]

\* execute_query(query, ctx, db_id): what it returns, the context after it
\* and the engine calls it made
execute_query(db_configs, ctx, query, db_id, out) ==
    QueryResponse(ExecuteAndGetResults(db_configs, ctx, query, db_id, out))

\* a faulty variant of JsonOutput: the rows are the processed rows (lists of
\* cells), not the row maps of the engine
JsonOutputProcessed(result) ==
    PyDict(<< <<"database", PyDict(<< <<"id", PyStr(result.database.id)>>,
                                      <<"description", PyStr(result.database.description)>>,
                                      <<"db_type", PyStr(result.database.db_type)>> >>)>>,
              <<"columns", PyList(result.column_names)>>,
              <<"rows", PyList([i \in 1..Len(result.rows) |-> PyList(result.rows[i])])>>,
              <<"row_count", PyInt(result.row_count)>> >>)

\* the output object of execute_query_json
JsonOutput(result) ==
    PyDict(<< <<"database", PyDict(<< <<"id", PyStr(result.database.id)>>,
                                      <<"description", PyStr(result.database.description)>>,
                                      <<"db_type", PyStr(result.database.db_type)>> >>)>>,
              <<"columns", PyList(result.column_names)>>,
              <<"rows", result.raw_rows>>,
              <<"row_count", PyInt(result.row_count)>> >>)

NotSerializable == Exc("TypeError", "Object is not JSON serializable")

\* json.dumps(output, indent=2) inside the try block of execute_query_json
DumpOutput(output) ==
    IF JsonSerializable(output) THEN JsonDumpsIndent(output, 2, 0)
    ELSE "Error executing query: " \o NotSerializable.msg

\* execute_query_json after _execute_and_get_results did r
JsonResponse(r) ==
    [out |-> Returned(PyStr(IF r.out.raised THEN "Error executing query: " \o r.out.exc.msg
                            ELSE DumpOutput(JsonOutput(r.out.val)))),
     ctx |-> r.ctx, calls |-> r.calls]

\* execute_query_json(query, ctx, db_id)
execute_query_json(db_configs, ctx, query, db_id, out) ==
    JsonResponse(ExecuteAndGetResults(db_configs, ctx, query, db_id, out))

(***************************************************************************)
(* get_schema                                                              *)
(***************************************************************************)
\* a faulty variant of SchemaEntry: a failed fetch gives a null schema
SchemaEntryNoError(db_id, db_config, out) ==
    PyDict(<< <<"id", PyStr(db_id)>>,
              <<"description", PyStr(db_config.description)>>,
              <<"db_type", PyStr(db_config.db_type)>>,
              <<"schema", IF out.raised THEN PyNone ELSE out.val>> >>)

\* the entry get_schema appends for one database, out being what its
\* query_runner.get_schema() did
SchemaEntry(db_id, db_config, out) ==
    PyDict(<< <<"id", PyStr(db_id)>>,
              <<"description", PyStr(db_config.description)>>,
              <<"db_type", PyStr(db_config.db_type)>>,
              IF out.raised THEN <<"error", PyStr(out.exc.msg)>> ELSE <<"schema", out.val>> >>)

\* lines 272-274: json.dumps(schemas), or the text of the outer except clause
DumpSchemas(schemas) ==
    IF JsonSerializable(schemas) THEN JsonDumps(schemas)
    ELSE "Error getting schemas: " \o NotSerializable.msg

\* the position of id in the registry
RegIndex(reg, id) == CHOOSE i \in 1..Len(reg) : reg[i].id = id

\* lines 237-252: the schema of the i-th database alone
SchemaOfOne(db_configs, database_id, i, out) ==
    [out |-> Returned(PyStr(DumpSchemas(
                 PyList(<<SchemaEntry(database_id, db_configs[i], out)>>)))),
     calls |-> <<EngineCall(db_configs[i].query_runner, "get_schema", "", out)>>]

RECURSIVE FetchedEntries(_, _)
\* the entries of the databases whose fetch did not fail
FetchedEntries(db_configs, outs) ==
    IF db_configs = <<>> THEN <<>>
    ELSE (IF Head(outs).raised THEN <<>>
          ELSE <<SchemaEntry(Head(db_configs).id, Head(db_configs), Head(outs))>>)
         \o FetchedEntries(Tail(db_configs), Tail(outs))

\* a faulty variant of SchemaOfAll: a database whose fetch fails is left out
SchemaOfAllDropFailed(db_configs, outs) ==
    [out |-> Returned(PyStr(DumpSchemas(PyList(FetchedEntries(db_configs, outs))))),
     calls |-> [i \in 1..Len(db_configs) |->
                  EngineCall(db_configs[i].query_runner, "get_schema", "", outs[i])]]

\* lines 255-270: the schemas of every database
SchemaOfAll(db_configs, outs) ==
    [out |-> Returned(PyStr(DumpSchemas(
                 PyList([i \in 1..Len(db_configs) |->
                           SchemaEntry(db_configs[i].id, db_configs[i], outs[i])])))),
     calls |-> [i \in 1..Len(db_configs) |->
                  EngineCall(db_configs[i].query_runner, "get_schema", "", outs[i])]]

\* get_schema(database_id): database_id is None or a str; outs[i] is what the
\* engine answers for the i-th registry entry when it is asked
get_schema(db_configs, database_id, outs) ==
    IF database_id # PyNone /\ database_id # PyStr("all")
    THEN IF ~RegHas(db_configs, database_id.s)
         THEN [out |-> Returned(PyStr("Error: Invalid database ID " \o database_id.s)),
               calls |-> <<>>]
         ELSE SchemaOfOne(db_configs, database_id.s, RegIndex(db_configs, database_id.s),
                          outs[RegIndex(db_configs, database_id.s)])
    ELSE SchemaOfAll(db_configs, outs)

(***************************************************************************)
(* The operations that read the registry and the session                   *)
(***************************************************************************)
\* an operation that returns text and asks the engine nothing
Answer(text) == [out |-> Returned(PyStr(text)), calls |-> <<>>]

RECURSIVE HistoryLinesNewestFirst(_)
\* a faulty variant of HistoryLines: the newest entry comes first
HistoryLinesNewestFirst(entries) ==
    IF entries = <<>> THEN ""
    ELSE HistoryLinesNewestFirst(Tail(entries)) \o "- " \o Head(entries) \o "\n"

RECURSIVE HistoryLines(_)
\* lines 285-289: the entries are the strings _execute_and_get_results appends
HistoryLines(entries) ==
    IF entries = <<>> THEN ""
    ELSE "- " \o Head(entries) \o "\n" \o HistoryLines(Tail(entries))

\* get_query_history(ctx)
get_query_history(ctx) ==
    IF ctx.query_history = <<>> THEN Answer("No query history available")
    ELSE Answer("Query History:\n" \o HistoryLines(ctx.query_history))

\* lines 303-308: the line of one database; a cached schema is None or a list
DatabaseLine(db_config) ==
    "ID: " \o db_config.id \o " - " \o db_config.description
    \o " (Type: " \o db_config.db_type \o ")"
    \o (IF Truthy(db_config.schema)
        THEN " - " \o IntToStr(Len(db_config.schema.items)) \o " tables" ELSE "")

\* list_databases(ctx)
list_databases(db_configs) ==
    IF db_configs = <<>> THEN Answer("No database connections available.")
    ELSE Answer("Available databases:\n"
                \o Join("\n", [i \in 1..Len(db_configs) |-> DatabaseLine(db_configs[i])]))

SummaryTables == 10
SummaryColumns == 5

\* a faulty variant of TableLine: a table of exactly five columns is marked
\* as cut
TableLineFromFifth(table, column_str) ==
    IF column_str.raised THEN column_str
    ELSE Returned("- " \o Str(DictGet(table, "name", PyStr(""))) \o " (" \o column_str.val
                  \o (IF Len(DictGet(table, "columns", PyList(<<>>)).items) >= SummaryColumns
                      THEN ", ..." ELSE "") \o ")")

\* lines 334-340: the line of a table, column_str being the joined names
TableLine(table, column_str) ==
    IF column_str.raised THEN column_str
    ELSE Returned("- " \o Str(DictGet(table, "name", PyStr(""))) \o " (" \o column_str.val
                  \o (IF Len(DictGet(table, "columns", PyList(<<>>)).items) > SummaryColumns
                      THEN ", ..." ELSE "") \o ")")

\* lines 335-336: ", ".join of the names of the first five columns
ColumnStr(columns) ==
    IF \E i \in 1..Len(columns) : ~IsDict(columns[i])
    THEN Raised(AttributeError(FirstNonDict(columns), "get"))
    ELSE JoinValues(", ", [i \in 1..Len(columns) |-> DictGet(columns[i], "name", PyStr(""))])

\* lines 330-340 for one table: its line, nothing for a table without a name
TableSummary(table) ==
    IF ~IsDict(table) THEN Raised(AttributeError(table, "get"))
    ELSE IF ~Truthy(DictGet(table, "name", PyStr(""))) THEN Returned("")
    ELSE IF ~IsList(DictGet(table, "columns", PyList(<<>>)))
    THEN Raised(Exc("TypeError", "'" \o TypeName(DictGet(table, "columns", PyList(<<>>)))
                                 \o "' object is not subscriptable"))
    ELSE TableLine(table,
                   ColumnStr(Take(DictGet(table, "columns", PyList(<<>>)).items,
                                  SummaryColumns)))

\* the first table summary that raised
FirstRaised(outs) ==
    outs[CHOOSE i \in 1..Len(outs) : outs[i].raised /\ \A j \in 1..(i - 1) : ~outs[j].raised]

RECURSIVE NonEmpty(_)
\* the strings of xs that are not empty, in order
NonEmpty(xs) ==
    IF xs = <<>> THEN <<>>
    ELSE IF Head(xs) = "" THEN NonEmpty(Tail(xs))
    ELSE <<Head(xs)>> \o NonEmpty(Tail(xs))

\* lines 328-345: the summary of a non-empty table list, lines being the
\* outcomes of its first ten tables
SummaryOf(tables, lines) ==
    IF \E i \in 1..Len(lines) : lines[i].raised THEN FirstRaised(lines)
    ELSE IF NonEmpty([i \in 1..Len(lines) |-> lines[i].val]) = <<>>
            /\ Len(tables) <= SummaryTables
    THEN Returned("No tables found in schema")
    ELSE Returned(Join("\n",
             NonEmpty([i \in 1..Len(lines) |-> lines[i].val])
             \o (IF Len(tables) > SummaryTables
                 THEN <<"... and " \o IntToStr(Len(tables) - SummaryTables) \o " more tables">>
                 ELSE <<>>)))

\* a faulty variant of get_database_schema_summary: an empty table list is
\* taken for a schema that is absent
SummaryOrUnavailable(db_config) ==
    IF ~Truthy(db_config.schema) THEN Returned("Schema information not available")
    ELSE SummaryOf(db_config.schema.items,
                   [i \in 1..Len(Take(db_config.schema.items, SummaryTables)) |->
                      TableSummary(db_config.schema.items[i])])

\* get_database_schema_summary(db_config)
get_database_schema_summary(db_config) ==
    IF db_config.schema = PyNone THEN Returned("Schema information not available")
    ELSE IF ~Truthy(db_config.schema) THEN Returned("No tables found in schema")
    ELSE SummaryOf(db_config.schema.items,
                   [i \in 1..Len(Take(db_config.schema.items, SummaryTables)) |->
                      TableSummary(db_config.schema.items[i])])

\* lines 356-359 and 369-372: the text about one database
InfoOf(db_id, db_config, summary) ==
    IF summary.raised THEN summary
    ELSE Returned("Database ID: " \o db_id \o "\n"
                  \o "Description: " \o db_config.description \o "\n"
                  \o "Type: " \o db_config.db_type \o "\n"
                  \o "Schema Summary:\n" \o summary.val)

\* lines 354-362: the text about every database
InfoOfAll(infos) ==
    IF \E i \in 1..Len(infos) : infos[i].raised
    THEN [out |-> FirstRaised(infos), calls |-> <<>>]
    ELSE Answer(Join("\n\n", [i \in 1..Len(infos) |-> infos[i].val]))

\* lines 368-374: the text about one database, or what its summary raised
InfoOfOne(info) ==
    IF info.raised THEN [out |-> info, calls |-> <<>>] ELSE Answer(info.val)

\* get_database_info(ctx, db_id): db_id is None or a str
get_database_info(db_configs, db_id) ==
    IF db_id = PyNone
    THEN InfoOfAll([i \in 1..Len(db_configs) |->
                      InfoOf(db_configs[i].id, db_configs[i],
                             get_database_schema_summary(db_configs[i]))])
    ELSE IF ~RegHas(db_configs, db_id.s) THEN Answer("Invalid database ID: " \o db_id.s)
    ELSE InfoOfOne(InfoOf(db_id.s, RegGet(db_configs, db_id.s),
                          get_database_schema_summary(RegGet(db_configs, db_id.s))))

\* the first table of a schema that is no dict or has the name
FirstHit(tables, table_name) ==
    CHOOSE i \in 0..Len(tables) :
        /\ i > 0 => (~IsDict(tables[i]) \/ DictGet(tables[i], "name", PyNone) = PyStr(table_name))
        /\ \A j \in 1..(IF i = 0 THEN Len(tables) ELSE i - 1) :
              IsDict(tables[j]) /\ DictGet(tables[j], "name", PyNone) # PyStr(table_name)

\* a faulty variant of Lookup: the name is compared without regard to case
LookupFolded(db_config, table_name) ==
    IF ~Truthy(db_config.schema) THEN "absent"
    ELSE IF \E i \in 1..Len(db_config.schema.items) :
               Lower(Str(DictGet(db_config.schema.items[i], "name", PyStr(""))))
               = Lower(table_name)
    THEN "found" ELSE "absent"

\* lines 606-616 for one database: "found", "absent", or "raised" when
\* table.get fails on a table that is no dict
Lookup(db_config, table_name) ==
    IF ~Truthy(db_config.schema) THEN "absent"
    ELSE IF FirstHit(db_config.schema.items, table_name) = 0 THEN "absent"
    ELSE IF IsDict(db_config.schema.items[FirstHit(db_config.schema.items, table_name)])
    THEN "found" ELSE "raised"

RECURSIVE FoundLines(_, _)
\* lines 622-623
FoundLines(db_configs, looks) ==
    IF db_configs = <<>> THEN ""
    ELSE (IF Head(looks) = "found"
          THEN "- Database ID: " \o Head(db_configs).id \o " - " \o Head(db_configs).description
               \o " (Type: " \o Head(db_configs).db_type \o ")\n"
          ELSE "")
         \o FoundLines(Tail(db_configs), Tail(looks))

\* find_table after the loop looked into every database
FoundIn(db_configs, table_name, looks) ==
    IF \E i \in 1..Len(looks) : looks[i] = "raised"
    THEN [out |-> Raised(Exc("AttributeError", "object has no attribute 'get'")),
          calls |-> <<>>]
    ELSE IF \A i \in 1..Len(looks) : looks[i] = "absent"
    THEN Answer("Table '" \o table_name \o "' was not found in any database schema.")
    ELSE Answer("Table '" \o table_name \o "' was found in the following databases:\n"
                \o FoundLines(db_configs, looks))

\* find_table(table_name, ctx)
find_table(db_configs, table_name) ==
    FoundIn(db_configs, table_name,
            [i \in 1..Len(db_configs) |-> Lookup(db_configs[i], table_name)])

(***************************************************************************)
(* The operations on one table                                             *)
(***************************************************************************)
\* the 'database' object of the table operations
DatabaseObject(db_id, db_config) ==
    PyDict(<< <<"id", PyStr(db_id)>>, <<"description", PyStr(db_config.description)>>,
              <<"db_type", PyStr(db_config.db_type)>> >>)

\* json.dumps(output) inside a try block whose except clause says prefix
DumpOr(prefix, output) ==
    IF JsonSerializable(output) THEN JsonDumps(output) ELSE prefix \o NotSerializable.msg

\* lines 478-494 and 502-518: one engine method on a table, its answer under
\* the key field of the JSON object, every exception as text after prefix
TableCall(db_configs, table_name, db_id, method, field, prefix, out) ==
    IF ~RegHas(db_configs, db_id) THEN Answer(prefix \o "Invalid database ID: " \o db_id)
    ELSE [out |-> Returned(PyStr(
                     IF out.raised THEN prefix \o out.exc.msg
                     ELSE DumpOr(prefix,
                                 PyDict(<< <<"database",
                                             DatabaseObject(db_id, RegGet(db_configs, db_id))>>,
                                           <<"table", PyStr(table_name)>>,
                                           <<field, out.val>> >>)))),
          calls |-> <<EngineCall(RegGet(db_configs, db_id).query_runner, method, table_name,
                                out)>>]

\* get_table_columns(table_name, ctx, db_id)
get_table_columns(db_configs, table_name, db_id, out) ==
    TableCall(db_configs, table_name, db_id, "get_table_columns", "columns",
              "Error getting columns for table " \o table_name \o ": ", out)

\* get_table_types(table_name, ctx, db_id)
get_table_types(db_configs, table_name, db_id, out) ==
    TableCall(db_configs, table_name, db_id, "get_table_types", "types",
              "Error getting types for table " \o table_name \o ": ", out)

\* a value that cannot be a dict key
Unhashable(v) == IsDict(v) \/ IsList(v)

\* types.get(column, "unknown"): a key that is no str is in no types map
TypeOf(types, column) ==
    IF IsStr(column) THEN DictGet(types, column.s, PyStr("unknown")) ELSE PyStr("unknown")

RECURSIVE ColumnLines(_, _)
\* lines 539-541
ColumnLines(columns, types) ==
    IF columns = <<>> THEN ""
    ELSE "- " \o Str(Head(columns)) \o " (" \o Str(TypeOf(types, Head(columns))) \o ")\n"
         \o ColumnLines(Tail(columns), types)

\* lines 536-543: the description, or the exception the loop raises
Description(table_name, db_id, db_config, columns, types) ==
    IF ~IsList(columns)
    THEN Raised(Exc("TypeError", "'" \o TypeName(columns) \o "' object is not iterable"))
    ELSE IF columns.items # <<>> /\ ~IsDict(types) THEN Raised(AttributeError(types, "get"))
    ELSE IF \E i \in 1..Len(columns.items) : Unhashable(columns.items[i])
    THEN Raised(Exc("TypeError", "unhashable type"))
    ELSE Returned("Table: " \o table_name \o " in Database: " \o db_config.description
                  \o " (ID: " \o db_id \o ")\n\n" \o "Columns:\n"
                  \o ColumnLines(columns.items, types))

\* the except clause of a table operation: every exception is text
TextOr(prefix, text) == IF text.raised THEN prefix \o text.exc.msg ELSE text.val

\* lines 529-545 of describe_table on a registered database
Describe(db_config, table_name, db_id, prefix, columns, types) ==
    IF columns.raised
    THEN [out |-> Returned(PyStr(prefix \o columns.exc.msg)),
          calls |-> <<EngineCall(db_config.query_runner, "get_table_columns", table_name,
                                 columns)>>]
    ELSE [out |-> Returned(PyStr(
                     IF types.raised THEN prefix \o types.exc.msg
                     ELSE TextOr(prefix, Description(table_name, db_id, db_config,
                                                     columns.val, types.val)))),
          calls |-> <<EngineCall(db_config.query_runner, "get_table_columns", table_name,
                                 columns),
                      EngineCall(db_config.query_runner, "get_table_types", table_name,
                                 types)>>]

\* a faulty variant of describe_table: an unknown id gets the message of a
\* table that could not be described
describe_table_plain(db_configs, table_name, db_id, columns, types) ==
    IF ~RegHas(db_configs, db_id)
    THEN Answer("Error describing table " \o table_name \o ": no such database")
    ELSE Describe(RegGet(db_configs, db_id), table_name, db_id,
                  "Error describing table " \o table_name \o ": ", columns, types)

\* describe_table(ctx, table_name, db_id): columns and types are what the
\* engine answers when it is asked
describe_table(db_configs, table_name, db_id, columns, types) ==
    IF ~RegHas(db_configs, db_id) THEN Answer("Error: Invalid database ID " \o db_id)
    ELSE Describe(RegGet(db_configs, db_id), table_name, db_id,
                  "Error describing table " \o table_name \o ": ", columns, types)

SampleLimit == 100

\* a faulty variant of SampleQuery: the limit is passed on as it is
SampleQueryUncapped(table_name, limit) ==
    "SELECT * FROM " \o table_name \o " LIMIT " \o IntToStr(limit)

\* line 560
SampleQuery(table_name, limit) ==
    "SELECT * FROM " \o table_name \o " LIMIT "
    \o IntToStr(IF limit < SampleLimit THEN limit ELSE SampleLimit)

\* lines 566-570: a column that is a dict gives its friendly name or its
\* name, any other column is taken as it is
SampleColumnNames(columns) ==
    [i \in 1..Len(columns) |->
        IF IsDict(columns[i]) THEN ColumnName(columns[i]) ELSE columns[i]]

\* lines 581-586: the cells of a row; a row that is a dict is read under the
\* column names, any other row is taken cell by cell
RowValues(row, column_names) ==
    IF IsDict(row)
    THEN [j \in 1..Len(column_names) |->
            Str(DictGet(row, column_names[j].s, PyStr("")))]
    ELSE [j \in 1..Len(row.items) |-> Str(row.items[j])]

\* lines 577-595: the text for the rows under a header
SampleText(table_name, db_id, db_config, column_names, header, rows) ==
    IF header.raised THEN header
    ELSE IF ~IsList(rows)
    THEN Raised(Exc("TypeError", "'" \o TypeName(rows) \o "' object is not iterable"))
    ELSE IF \E i \in 1..Len(rows.items) : ~IsDict(rows.items[i]) /\ ~IsList(rows.items[i])
    THEN Raised(Exc("TypeError", "object is not iterable"))
    ELSE Returned("Sample data from table '" \o table_name \o "' in Database: "
                  \o db_config.description \o " (ID: " \o db_id \o ")\n\n"
                  \o header.val \o "\n"
                  \o Join(" | ", [i \in 1..Len(column_names) |-> "---"]) \o "\n"
                  \o Join("\n", [i \in 1..Len(rows.items) |->
                                   Join(" | ", RowValues(rows.items[i], column_names))])
                  \o (IF rows.items = <<>> THEN "\n\nNo data found in table." ELSE ""))

\* lines 564-595: the text for the columns and rows of an engine result
SampleOf(table_name, db_id, db_config, columns, rows) ==
    IF ~IsList(columns)
    THEN Raised(Exc("TypeError", "'" \o TypeName(columns) \o "' object is not iterable"))
    ELSE SampleText(table_name, db_id, db_config, SampleColumnNames(columns.items),
                    JoinValues(" | ", SampleColumnNames(columns.items)), rows)

\* lines 561-595: the text for an engine result
SampleResult(table_name, db_id, db_config, result) ==
    IF ~IsDict(result) THEN Raised(AttributeError(result, "get"))
    ELSE SampleOf(table_name, db_id, db_config,
                  DictGet(result, "columns", PyList(<<>>)),
                  DictGet(result, "rows", PyList(<<>>)))

\* lines 556-597 of get_table_sample on a registered database
Sample(db_config, table_name, db_id, limit, prefix, out) ==
    [out |-> Returned(PyStr(
                IF out.raised THEN prefix \o out.exc.msg
                ELSE TextOr(prefix, SampleResult(table_name, db_id, db_config, out.val)))),
     calls |-> <<EngineCall(db_config.query_runner, "run_query",
                            SampleQuery(table_name, limit), out)>>]

\* get_table_sample(ctx, table_name, db_id, limit)
get_table_sample(db_configs, table_name, db_id, limit, out) ==
    IF ~RegHas(db_configs, db_id) THEN Answer("Error: Invalid database ID " \o db_id)
    ELSE Sample(RegGet(db_configs, db_id), table_name, db_id, limit,
                "Error getting sample data from table " \o table_name \o ": ", out)

(***************************************************************************)
(* Inputs: configuration sources, queries and engine answers               *)
(***************************************************************************)
\* the longest descriptor array the loader is given
MaxConfigs == 2
\* the longest query history a session builds
MaxHistory == 2
\* the operations that read nothing of the session are called in sessions
\* with at most this many recorded queries
ReadDepth == 1

PgConfiguration == PyDict(<< <<"host", PyStr("localhost")>>, <<"port", PyInt(5432)>> >>)
MysqlConfiguration == PyDict(<< <<"host", PyStr("localhost")>>, <<"port", PyInt(3306)>> >>)

ElemPg == PyDict(<< <<"db_type", PyStr("pg")>>, <<"configuration", PgConfiguration>>,
                    <<"description", PyStr("PostgreSQL DB")>> >>)
ElemMysql == PyDict(<< <<"db_type", PyStr("mysql")>>, <<"configuration", MysqlConfiguration>>,
                       <<"description", PyStr("MySQL DB")>> >>)
ElemWithId == PyDict(<< <<"id", PyStr("main")>>, <<"db_type", PyStr("PG")>>,
                        <<"configuration", PgConfiguration>>,
                        <<"description", PyStr("Main DB")>> >>)
ElemNoDescription == PyDict(<< <<"db_type", PyStr("pg")>>,
                               <<"configuration", PgConfiguration>> >>)
ElemNotDict == PyStr("pg")

Elements == {ElemPg, ElemMysql, ElemWithId, ElemNoDescription, ElemNotDict}

\* the descriptor arrays of at most n elements
Arrays(n) == UNION {[1..k -> Elements] : k \in 1..n}

Malformed == "{host: localhost"

\* the values of --db-configs / DB_CONFIGS: absent, malformed, an empty array,
\* a JSON value that is no array, or an array of elements
MultiPayloads ==
    {PyNone, PyStr(Malformed), PyStr("[]"), PyStr(JsonDumps(PgConfiguration))}
    \cup {PyStr(JsonDumps(PyList(a))) : a \in Arrays(MaxConfigs)}

\* the values of --db-config / DB_CONFIG: absent, malformed, an empty object,
\* an object, or an object encoded twice
SinglePayloads ==
    {PyNone, PyStr(Malformed), PyStr("{}"), PyStr(JsonDumps(MysqlConfiguration)),
     PyStr(JsonDumps(PyStr(JsonDumps(MysqlConfiguration))))}

Env(db_type, db_config, db_configs) ==
    [DB_TYPE |-> db_type, DB_CONFIG |-> db_config, DB_CONFIGS |-> db_configs]

NoEnv == Env(PyNone, PyNone, PyNone)

\* the environments: nothing set, DB_CONFIGS set, DB_TYPE and DB_CONFIG set,
\* DB_CONFIG set to a malformed text
Environments ==
    {NoEnv,
     Env(PyNone, PyNone, PyStr(JsonDumps(PyList(<<ElemMysql>>)))),
     Env(PyStr("pg"), PyStr(JsonDumps(PgConfiguration)), PyNone),
     Env(PyNone, PyStr(Malformed), PyNone)}

Source(testing, db_type, db_config, db_configs, env) ==
    [testing |-> testing, db_type |-> db_type, db_config |-> db_config,
     db_configs |-> db_configs, env |-> env]

\* every configuration source the loader is checked on; a test may pass the
\* configuration as an object instead of a string
LoadSources ==
    {Source(FALSE, t, c, PyNone, e) :
        t \in {PyNone, PyStr("MySQL")}, c \in SinglePayloads, e \in Environments}
    \cup {Source(FALSE, PyStr("MySQL"), c, m, NoEnv) :
            c \in {PyNone, PyStr(Malformed), PyStr(JsonDumps(MysqlConfiguration))},
            m \in MultiPayloads}
    \cup {Source(TRUE, PyStr("MySQL"), c, PyNone, NoEnv) : c \in {MysqlConfiguration, PyDict(<<>>)}}
    \cup {Source(TRUE, PyStr("MySQL"), MysqlConfiguration, PyList(<<>>), NoEnv)}
    \cup {Source(TRUE, PyNone, PyNone, m, NoEnv) :
            m \in {PyList(<<ElemPg, ElemMysql>>), PyList(<<>>), PgConfiguration}}

\* the configuration sources of the served sessions: two databases, one
\* database, and nothing configured
ServedSources ==
    {Source(FALSE, PyNone, PyNone, PyStr(JsonDumps(PyList(<<ElemPg, ElemMysql>>))), NoEnv),
     Source(FALSE, PyStr("MySQL"), PyStr(JsonDumps(MysqlConfiguration)), PyNone, NoEnv),
     Source(FALSE, PyNone, PyNone, PyNone, NoEnv)}

\* a descriptor with an id, for the database at host
Elem(id, db_type, host, description) ==
    PyDict(<< <<"id", PyStr(id)>>, <<"db_type", PyStr(db_type)>>,
              <<"configuration", PyDict(<< <<"host", PyStr(host)>> >>)>>,
              <<"description", PyStr(description)>> >>)

\* the configuration sources of the sessions that look into cached schemas:
\* databases with many tables, with no table, and with a table of one name
ReadSources ==
    {Source(FALSE, PyNone, PyNone, PyStr(JsonDumps(PyList(a))), NoEnv) :
        a \in {<<ElemPg, ElemMysql>>,
               <<Elem("wh", "pg", "warehouse", "Warehouse"),
                 Elem("blank", "mysql", "blank", "Blank DB")>>,
               <<Elem("arch", "mysql", "archive", "Archive"),
                 Elem("wh", "pg", "warehouse", "Warehouse")>>,
               <<ElemWithId, Elem("wh", "pg", "warehouse", "Warehouse")>>}}

Column(name) == PyDict(<< <<"name", PyStr(name)>> >>)
Table(name, columns) ==
    PyDict(<< <<"name", PyStr(name)>>,
              <<"columns", PyList([i \in 1..Len(columns) |-> Column(columns[i])])>> >>)

UsersSchema == PyList(<<Table("users", <<"id", "name">>)>>)
OrdersSchema == PyList(<<Table("orders", <<"id">>)>>)

\* the i-th table of a large schema: it has i - 1 columns
NumberedTable(i) ==
    Table("t" \o IntToStr(i), [j \in 1..(i - 1) |-> "c" \o IntToStr(j)])

\* a schema of more tables than a summary shows, two of them of one name
WideSchema ==
    PyList(<<Table("users", <<"id">>), Table("users", <<"id", "name">>)>>
           \o [i \in 1..SummaryTables |-> NumberedTable(i)])

\* a schema of exactly as many tables as a summary shows
FullSchema ==
    PyList(<<Table("Users", <<"id">>)>>
           \o [i \in 1..(SummaryTables - 1) |-> NumberedTable(i)])

EngineError(msg) == Raised(Exc("Exception", msg))

\* what query_runner.get_schema() does: it returns the schema of its
\* database, or raises
SchemaOutcome(runner, ok) ==
    IF ~ok THEN EngineError("connection \"refused\"")
    ELSE IF DictGet(runner.configuration, "host", PyNone) = PyStr("warehouse")
    THEN Returned(WideSchema)
    ELSE IF DictGet(runner.configuration, "host", PyNone) = PyStr("archive")
    THEN Returned(FullSchema)
    ELSE IF DictGet(runner.configuration, "host", PyNone) = PyStr("blank")
    THEN Returned(PyList(<<>>))
    ELSE Returned(IF Lower(runner.db_type) = "pg" THEN UsersSchema ELSE OrdersSchema)

Queries == {"SELECT 1", "SELECT * FROM users"}

UsersResult ==
    PyDict(<< <<"columns", PyList(<<PyDict(<< <<"name", PyStr("id")>>,
                                               <<"friendly_name", PyStr("ID")>> >>),
                                     Column("name")>>)>>,
              <<"rows", PyList(<<PyDict(<< <<"name", PyStr("Alice")>>,
                                           <<"id", PyInt(1)>> >>)>>)>> >>)

\* a row value json.dumps has no encoding for
DecimalResult ==
    PyDict(<< <<"columns", PyList(<<Column("total")>>)>>,
              <<"rows", PyList(<<PyDict(<< <<"total", PyObj("12.50")>> >>)>>)>> >>)

\* a result of n rows under the columns id (shown as ID) and name; the keys
\* of a row map are not in column order
RowsResult(n) ==
    PyDict(<< <<"columns", PyList(<<PyDict(<< <<"name", PyStr("id")>>,
                                               <<"friendly_name", PyStr("ID")>> >>),
                                     Column("name")>>)>>,
              <<"rows", PyList([i \in 1..n |->
                                  PyDict(<< <<"name", PyStr("user" \o IntToStr(i))>>,
                                            <<"id", PyInt(i)>> >>)])>> >>)

\* a result that has two columns of one name
TwinResult ==
    PyDict(<< <<"columns", PyList(<<Column("id"), Column("id")>>)>>,
              <<"rows", PyList(<<PyDict(<< <<"id", PyInt(7)>> >>)>>)>> >>)

\* what query_runner.run_query(query) may do for a query: a result, no
\* result object, a result with a value that is no JSON value, results of as
\* many rows as a table shows and of one more, or an exception
RunQueryOutcomes(query) ==
    IF query = "SELECT 1"
    THEN {Returned(UsersResult), Returned(PyNone), EngineError("syntax error")}
    ELSE {Returned(RowsResult(DisplayRows)), Returned(RowsResult(DisplayRows + 1)),
          Returned(DecimalResult), Returned(TwinResult), EngineError("syntax error")}

\* a result whose columns are names and whose rows are lists of cells
ListResult ==
    PyDict(<< <<"columns", PyList(<<PyStr("id"), PyStr("name")>>)>>,
              <<"rows", PyList(<<PyList(<<PyInt(1), PyStr("Test User")>>)>>)>> >>)

\* a result without rows
EmptyResult ==
    PyDict(<< <<"columns", PyList(<<Column("id")>>)>>, <<"rows", PyList(<<>>)>> >>)

\* what run_query does for get_table_sample
SampleOutcomes ==
    RunQueryOutcomes("SELECT 1") \cup RunQueryOutcomes("SELECT * FROM users")
    \cup {Returned(ListResult), Returned(EmptyResult)}

\* the limits a caller passes to get_table_sample
Limits == {0, 10, 100, 150}

\* the table names a caller passes
TableNames == {"users"}

\* what query_runner.get_table_columns(table_name) may do
ColumnsOutcomes ==
    {Returned(PyList(<<PyStr("id"), PyStr("name")>>)), EngineError("no such table")}

\* what query_runner.get_table_types(table_name) may do
TypesOutcomes ==
    {Returned(PyDict(<< <<"id", PyStr("integer")>> >>)), EngineError("permission denied")}

UnknownId == "no_such_db"

\* the ids a caller passes: every registered id and one that is not
CallIds(db_configs) == {db_configs[i].id : i \in 1..Len(db_configs)} \cup {UnknownId}

(***************************************************************************)
(* State                                                                   *)
(***************************************************************************)
VARIABLES
    pc,             \* "import", "fetch", "lifespan", "serving", "responded" or "exited"
    source,         \* the configuration source of this run
    config_map,     \* the registry
    made,           \* the connection handles constructed so far
    fetch_i,        \* position of the start-up schema fetch loop
    fetched,        \* the start-up schema fetches attempted
    last_query,     \* DbContext.last_query
    last_result,    \* DbContext.last_result
    query_history,  \* DbContext.query_history
    ret,            \* the operation just run: its name, arguments and outcome
    engine_calls,   \* the engine calls that operation made
    ok_log,         \* the (db_id, query) of the query calls so far, while none failed
    any_failed      \* whether some query call returned an error

vars == <<pc, source, config_map, made, fetch_i, fetched, last_query, last_result,
          query_history, ret, engine_calls, ok_log, any_failed>>

session_vars == <<last_query, last_result, query_history>>
log_vars == <<ok_log, any_failed>>
startup_vars == <<source, config_map, made, fetch_i, fetched>>

Op(name, args, out) == [op |-> name, args |-> args, out |-> out]

\* no operation is running and none has a result pending
Idle == Op("idle", <<>>, Returned(PyNone))

InitWith(sources) ==
    /\ pc = "import"
    /\ source \in sources
    /\ config_map = <<>>           \* line 144
    /\ made = <<>>
    /\ fetch_i = 1
    /\ fetched = <<>>
    /\ last_query = PyNone         \* lines 178-184
    /\ last_result = PyNone
    /\ query_history = <<>>
    /\ ret = Idle
    /\ engine_calls = <<>>
    /\ ok_log = <<>>
    /\ any_failed = FALSE

Init == InitWith(ServedSources)

InitLoad == InitWith(LoadSources)

(***************************************************************************)
(* Start-up                                                                *)
(***************************************************************************)
\* the module is imported by a test: init_config is not run and config_map
\* stays empty (lines 144-148)
ImportUnderTest ==
    /\ pc = "import"
    /\ pc' = "serving"
    /\ UNCHANGED <<startup_vars, session_vars, ret, engine_calls, log_vars>>

\* init_config() returned r (line 150)
InitConfigReturned(r) ==
    /\ ~r.raised
    /\ config_map' = r.val
    /\ made' = r.made
    /\ pc' = "fetch"
    /\ UNCHANGED <<source, fetch_i, fetched, session_vars, ret, engine_calls, log_vars>>

InitConfigOk ==
    /\ pc = "import"
    /\ \E failAt \in 0..MaxConfigs : InitConfigReturned(init_config(source, failAt))

\* a faulty variant of InitConfigRaised: the error is printed and start-up
\* goes on with the empty registry
InitConfigRaisedGoesOn(r) ==
    /\ r.raised
    /\ made' = r.made
    /\ ret' = Op("init_config", <<>>, Raised(r.exc))
    /\ pc' = "lifespan"
    /\ UNCHANGED <<source, config_map, fetch_i, fetched, session_vars, engine_calls, log_vars>>

\* init_config() raised: usage is printed and the process exits (lines 151-164)
InitConfigRaised(r) ==
    /\ r.raised
    /\ made' = r.made
    /\ ret' = Op("init_config", <<>>, Raised(r.exc))
    /\ pc' = "exited"
    /\ UNCHANGED <<source, config_map, fetch_i, fetched, session_vars, engine_calls, log_vars>>

InitConfigFail ==
    /\ pc = "import"
    /\ \E failAt \in 0..MaxConfigs : InitConfigRaised(init_config(source, failAt))

\* a faulty variant of FetchAnswered: the loop ends at the first fetch that
\* fails
FetchAnsweredOrBreak(out) ==
    /\ config_map' = [config_map EXCEPT ![fetch_i].schema =
                         IF out.raised THEN @ ELSE out.val]
    /\ fetched' = Append(fetched, [h |-> config_map[fetch_i].query_runner.h,
                                   ok |-> ~out.raised])
    /\ fetch_i' = fetch_i + 1
    /\ pc' = IF fetch_i = Len(config_map) \/ out.raised THEN "lifespan" ELSE "fetch"
    /\ UNCHANGED <<source, made, session_vars, ret, engine_calls, log_vars>>

\* the schema fetch of one database answered with out (lines 168-171)
FetchAnswered(out) ==
    /\ config_map' = [config_map EXCEPT ![fetch_i].schema =
                         IF out.raised THEN @ ELSE out.val]
    /\ fetched' = Append(fetched, [h |-> config_map[fetch_i].query_runner.h,
                                   ok |-> ~out.raised])
    /\ fetch_i' = fetch_i + 1
    /\ pc' = IF fetch_i = Len(config_map) THEN "lifespan" ELSE "fetch"
    /\ UNCHANGED <<source, made, session_vars, ret, engine_calls, log_vars>>

\* one iteration of the schema fetch loop (lines 167-171)
FetchSchema ==
    /\ pc = "fetch"
    /\ fetch_i <= Len(config_map)
    /\ \E ok \in BOOLEAN : FetchAnswered(SchemaOutcome(config_map[fetch_i].query_runner, ok))

\* db_lifespan: the context is created and every connection is tested; a
\* failed test is only logged (lines 196-216)
Lifespan ==
    /\ pc = "lifespan"
    /\ pc' = "serving"
    /\ UNCHANGED <<startup_vars, session_vars, ret, engine_calls, log_vars>>

(***************************************************************************)
(* Operations                                                              *)
(***************************************************************************)
Ctx == Session(last_query, last_result, query_history)

IsErrorText(v) == StartsWith(v.s, "Error")

\* a query call with outcome r: the session is written, the call is logged
\* a faulty variant of QueryCall: a database whose query failed is dropped
\* from the registry
QueryCallEvicting(name, query, db_id, r) ==
    /\ Len(r.ctx.query_history) <= MaxHistory
    /\ last_query' = r.ctx.last_query
    /\ last_result' = r.ctx.last_result
    /\ query_history' = r.ctx.query_history
    /\ ret' = Op(name, <<PyStr(query), PyStr(db_id)>>, r.out)
    /\ engine_calls' = r.calls
    /\ any_failed' = (any_failed \/ r.out.raised \/ IsErrorText(r.out.val))
    /\ ok_log' = IF any_failed' THEN <<>> ELSE Append(ok_log, <<db_id, query>>)
    /\ pc' = "responded"
    /\ config_map' = IF IsErrorText(r.out.val)
                     THEN SelectSeq(config_map, LAMBDA d : d.id # db_id)
                     ELSE config_map
    /\ UNCHANGED <<source, made, fetch_i, fetched>>

QueryCall(name, query, db_id, r) ==
    /\ Len(r.ctx.query_history) <= MaxHistory
    /\ last_query' = r.ctx.last_query
    /\ last_result' = r.ctx.last_result
    /\ query_history' = r.ctx.query_history
    /\ ret' = Op(name, <<PyStr(query), PyStr(db_id)>>, r.out)
    /\ engine_calls' = r.calls
    /\ any_failed' = (any_failed \/ r.out.raised \/ IsErrorText(r.out.val))
    /\ ok_log' = IF any_failed' THEN <<>> ELSE Append(ok_log, <<db_id, query>>)
    /\ pc' = "responded"
    /\ UNCHANGED startup_vars

ExecuteQuery ==
    /\ pc = "serving"
    /\ \E query \in Queries, db_id \in CallIds(config_map) :
       \E out \in RunQueryOutcomes(query) :
         QueryCall("execute_query", query, db_id,
                   execute_query(config_map, Ctx, query, db_id, out))

ExecuteQueryJson ==
    /\ pc = "serving"
    /\ \E query \in Queries, db_id \in CallIds(config_map) :
       \E out \in RunQueryOutcomes(query) :
         QueryCall("execute_query_json", query, db_id,
                   execute_query_json(config_map, Ctx, query, db_id, out))

\* the server is ready for an operation that reads nothing of the session
Ready == pc = "serving" /\ Len(query_history) <= ReadDepth

\* an operation that leaves the session alone returned r
\* a faulty variant of ReadCall: a query the operation ran on the engine is
\* recorded as the last query of the session
ReadCallRecording(name, args, r) ==
    /\ ret' = Op(name, args, r.out)
    /\ engine_calls' = r.calls
    /\ pc' = "responded"
    /\ last_query' = IF \E i \in 1..Len(r.calls) : r.calls[i].method = "run_query"
                     THEN PyStr(r.calls[1].arg) ELSE last_query
    /\ UNCHANGED <<startup_vars, last_result, query_history, log_vars>>

ReadCall(name, args, r) ==
    /\ ret' = Op(name, args, r.out)
    /\ engine_calls' = r.calls
    /\ pc' = "responded"
    /\ UNCHANGED <<startup_vars, session_vars, log_vars>>

GetSchema ==
    /\ Ready
    /\ \E database_id \in {PyNone, PyStr("all")} \cup {PyStr(id) : id \in CallIds(config_map)},
          oks \in [1..Len(config_map) -> BOOLEAN] :
         ReadCall("get_schema", <<database_id>>,
                  get_schema(config_map, database_id,
                             [i \in 1..Len(config_map) |->
                                SchemaOutcome(config_map[i].query_runner, oks[i])]))

GetQueryHistory ==
    /\ pc = "serving"
    /\ ReadCall("get_query_history", <<>>, get_query_history(Ctx))

ListDatabases ==
    /\ Ready
    /\ ReadCall("list_databases", <<>>, list_databases(config_map))

GetDatabaseInfo ==
    /\ Ready
    /\ \E db_id \in {PyNone} \cup {PyStr(id) : id \in CallIds(config_map)} :
         ReadCall("get_database_info", <<db_id>>, get_database_info(config_map, db_id))

FindTable ==
    /\ Ready
    /\ \E table_name \in TableNames \cup {"missing"} :
         ReadCall("find_table", <<PyStr(table_name)>>, find_table(config_map, table_name))

GetTableColumns ==
    /\ Ready
    /\ \E table_name \in TableNames, db_id \in CallIds(config_map), out \in ColumnsOutcomes :
         ReadCall("get_table_columns", <<PyStr(table_name), PyStr(db_id)>>,
                  get_table_columns(config_map, table_name, db_id, out))

GetTableTypes ==
    /\ Ready
    /\ \E table_name \in TableNames, db_id \in CallIds(config_map), out \in TypesOutcomes :
         ReadCall("get_table_types", <<PyStr(table_name), PyStr(db_id)>>,
                  get_table_types(config_map, table_name, db_id, out))

DescribeTable ==
    /\ Ready
    /\ \E table_name \in TableNames, db_id \in CallIds(config_map),
          columns \in ColumnsOutcomes, types \in TypesOutcomes :
         ReadCall("describe_table", <<PyStr(table_name), PyStr(db_id)>>,
                  describe_table(config_map, table_name, db_id, columns, types))

GetTableSample ==
    /\ Ready
    /\ \E table_name \in TableNames, db_id \in CallIds(config_map), limit \in Limits,
          out \in SampleOutcomes :
         ReadCall("get_table_sample", <<PyStr(table_name), PyStr(db_id), PyInt(limit)>>,
                  get_table_sample(config_map, table_name, db_id, limit, out))

GetDefaultQueryRunner ==
    /\ Ready
    /\ ret' = Op("get_default_query_runner", <<>>, get_default_query_runner(config_map))
    /\ engine_calls' = <<>>
    /\ pc' = "responded"
    /\ UNCHANGED <<startup_vars, session_vars, log_vars>>

\* the result goes back to the caller and the server waits for the next call
Respond ==
    /\ pc = "responded"
    /\ pc' = "serving"
    /\ ret' = Idle
    /\ engine_calls' = <<>>
    /\ UNCHANGED <<startup_vars, session_vars, log_vars>>

Next ==
    \/ ImportUnderTest
    \/ InitConfigOk
    \/ InitConfigFail
    \/ FetchSchema
    \/ Lifespan
    \/ ExecuteQuery
    \/ ExecuteQueryJson
    \/ GetSchema
    \/ GetQueryHistory
    \/ ListDatabases
    \/ GetDatabaseInfo
    \/ FindTable
    \/ GetTableColumns
    \/ GetTableTypes
    \/ DescribeTable
    \/ GetTableSample
    \/ GetDefaultQueryRunner
    \/ Respond

Spec == Init /\ [][Next]_vars

\* the sessions that look into the cached schemas
NextRead ==
    \/ ImportUnderTest
    \/ InitConfigOk
    \/ FetchSchema
    \/ Lifespan
    \/ ListDatabases
    \/ GetDatabaseInfo
    \/ FindTable
    \/ Respond

SpecRead == InitWith(ReadSources) /\ [][NextRead]_vars

\* the loader alone, on every configuration source
NextLoad ==
    \/ InitConfigOk
    \/ InitConfigFail

SpecLoad == InitLoad /\ [][NextLoad]_vars

(***************************************************************************)
(* Properties                                                              *)
(***************************************************************************)
\* the operation op has just returned
Responded(op) == pc = "responded" /\ ret.op = op

\* the db_id a query call was given
QueryDbId == ret.args[2].s

\* C1: for every query and every id that is no key of the registry,
\* execute_query returns a string containing "Invalid database ID", raises
\* nothing and calls run_query on no connection
Thm_C1 ==
    (Responded("execute_query") /\ ~RegHas(config_map, QueryDbId))
    => /\ ~ret.out.raised
       /\ IsStr(ret.out.val)
       /\ Contains(ret.out.val.s, "Invalid database ID")
       /\ \A i \in 1..Len(engine_calls) : engine_calls[i].method # "run_query"

\* an unknown id is given while two databases are registered and the session
\* has run a query before
Wit_C1 ==
    /\ Responded("execute_query")
    /\ ~RegHas(config_map, QueryDbId)
    /\ Len(config_map) = 2
    /\ query_history # <<>>

\* C2: after N calls of execute_query and execute_query_json that all
\* succeeded, in any mix and on any registered ids, the history has exactly N
\* entries and the i-th is "[{id}] [{description}] {query}" of the i-th call
Thm_C2 ==
    ~any_failed
    => /\ Len(query_history) = Len(ok_log)
       /\ \A i \in 1..Len(ok_log) :
            query_history[i] =
                "[" \o ok_log[i][1] \o "] ["
                \o RegGet(config_map, ok_log[i][1]).description \o "] " \o ok_log[i][2]

\* two successful calls on different databases with different queries, the
\* second one of execute_query_json
Wit_C2 ==
    /\ ~any_failed
    /\ Responded("execute_query_json")
    /\ Len(ok_log) = 2
    /\ ok_log[1][1] # ok_log[2][1]
    /\ ok_log[1][2] # ok_log[2][2]

DispatchOps ==
    {"list_databases", "get_database_info", "get_schema", "execute_query",
     "execute_query_json", "get_table_columns", "get_table_types", "describe_table",
     "get_table_sample", "find_table", "get_query_history"}

\* C3: every dispatch operation returns a string and raises nothing, for
\* known and unknown ids, whether the engine returns a result or raises
Thm_C3 ==
    (pc = "responded" /\ ret.op \in DispatchOps)
    => ~ret.out.raised /\ IsStr(ret.out.val)

\* describe_table returned although the second engine call raised
Wit_C3 ==
    /\ Responded("describe_table")
    /\ Len(engine_calls) = 2
    /\ engine_calls[2].out.raised
    /\ ~ret.out.raised

\* the loader has returned a registry built from a descriptor array
ArrayLoaded == pc = "fetch" /\ Truthy(ResolvedConfigs(source))

\* the elements of the descriptor array the loader was given
GivenArray == DecodeIfStr(ResolvedConfigs(source)).val.items

\* C4: a successful load of an array of N >= 1 elements that each carry
\* db_type, configuration and description yields a registry of exactly N
\* entries under pairwise distinct ids
Claim_C4 ==
    ArrayLoaded
    => /\ Len(config_map) = Len(GivenArray)
       /\ \A i, j \in 1..Len(config_map) : i # j => config_map[i].id # config_map[j].id

\* C5: get_default_query_runner returns the connection of the entry that
\* comes first in the registry, which is the connection constructed first
\* when every element got an entry of its own, and raises ValueError
\* "No database connections available" when the registry is empty
Thm_C5 ==
    Responded("get_default_query_runner")
    => IF config_map = <<>>
       THEN ret.out = Raised(Exc("ValueError", "No database connections available"))
       ELSE /\ ~ret.out.raised
            /\ ret.out.val = config_map[1].query_runner
            /\ Len(made) = Len(config_map) => ret.out.val = made[1]

\* the default connection is asked for while two databases are registered
Wit_C5 ==
    /\ Responded("get_default_query_runner")
    /\ Len(config_map) = 2
    /\ ~ret.out.raised

\* the element has no id of its own
HasNoId(config) == ~Truthy(DictGet(config, "id", PyStr("")))

\* C6: the id derived for an element at zero-based position i that supplies
\* no id is lower(db_type[:2]) + "_" + lower(alphanumerics of description[:8])
\* + "_" + i, whatever else the configuration sources hold; pg /
\* "PostgreSQL DB" / 0 gives "pg_postgres_0" and mysql / "MySQL DB" / 1 gives
\* "my_mysqldb_1"
Thm_C6 ==
    ArrayLoaded
    => \A i \in 1..Len(GivenArray) :
         HasNoId(GivenArray[i])
         => /\ RegHas(config_map,
                      Lower(Prefix(DictGet(GivenArray[i], "db_type", PyNone).s, 2)) \o "_"
                      \o Lower(Prefix(FilterAlnum(
                             DictGet(GivenArray[i], "description", PyNone).s), 8))
                      \o "_" \o IntToStr(i - 1))
            /\ (GivenArray[i] = ElemPg /\ i = 1) => RegHas(config_map, "pg_postgres_0")
            /\ (GivenArray[i] = ElemMysql /\ i = 2) => RegHas(config_map, "my_mysqldb_1")
            /\ GivenArray[i] = ElemPg
               => RegGet(config_map, "pg_postgres_" \o IntToStr(i - 1)).description
                  = "PostgreSQL DB"
            /\ GivenArray[i] = ElemMysql
               => RegGet(config_map, "my_mysqldb_" \o IntToStr(i - 1)).description
                  = "MySQL DB"

\* the array of the two examples has been loaded
Wit_C6 ==
    /\ ArrayLoaded
    /\ GivenArray = <<ElemPg, ElemMysql>>
    /\ RegIds(config_map) = <<"pg_postgres_0", "my_mysqldb_1">>

\* no descriptor array is configured, and db_type MySQL is given with a
\* non-empty configuration object: as JSON text, as JSON text encoded twice,
\* or as an object
SingleGiven ==
    /\ ~Truthy(ResolvedConfigs(source))
    /\ source.db_type = PyStr("MySQL")
    /\ source.db_config \in {PyStr(JsonDumps(MysqlConfiguration)),
                             PyStr(JsonDumps(PyStr(JsonDumps(MysqlConfiguration)))),
                             MysqlConfiguration}

\* C7: with no descriptor array and a single db_type with a non-empty
\* configuration object, the loader returns a registry of exactly one entry
\* with id lower(db_type) + "_default", description "Default database
\* connection" and the given object as configuration; it returns unless the
\* connection cannot be constructed
Thm_C7 ==
    (SingleGiven /\ pc # "import")
    => IF pc = "fetch"
       THEN /\ Len(config_map) = 1
            /\ config_map[1].id = "mysql_default"
            /\ config_map[1].db_type = "MySQL"
            /\ config_map[1].description = "Default database connection"
            /\ config_map[1].configuration = MysqlConfiguration
       ELSE ret.out = Raised(CannotConstruct)

\* the single configuration given as JSON text encoded twice has been loaded
Wit_C7 ==
    /\ SingleGiven
    /\ pc = "fetch"
    /\ source.db_config = PyStr(JsonDumps(PyStr(JsonDumps(MysqlConfiguration))))

\* the loader raised and returned no registry
LoadFailed == pc = "exited" /\ ret.out.raised /\ config_map = <<>>

\* the value is no dict or lacks db_type, configuration or description
LacksField(config) ==
    ~IsDict(config)
    \/ \E f \in {"db_type", "configuration", "description"} : ~DictHas(config, f)

\* the multi-database payload the loader uses decodes to an empty array, to
\* a value that is no list, or to an array with an element that lacks a field
BadArray(payload) ==
    LET decoded == DecodeIfStr(payload)
    IN  /\ ~decoded.raised
        /\ \/ ~IsList(decoded.val)
           \/ decoded.val.items = <<>>
           \/ \E i \in 1..Len(decoded.val.items) : LacksField(decoded.val.items[i])

\* neither a descriptor array nor a single configuration is supplied
NothingSupplied ==
    /\ source.db_configs = PyNone /\ source.env["DB_CONFIGS"] = PyNone
    /\ source.db_config = PyNone /\ source.env["DB_CONFIG"] = PyNone

\* lines 111-114: the single configuration payload the fallback decodes
SinglePayload ==
    IF Truthy(source.db_config) THEN source.db_config ELSE source.env["DB_CONFIG"]

\* the payload the loader decodes is malformed
MalformedUsed ==
    IF Truthy(ResolvedConfigs(source)) THEN ResolvedConfigs(source) = PyStr(Malformed)
    ELSE SinglePayload = PyStr(Malformed)

\* some payload is malformed, decoded or not
MalformedAny ==
    PyStr(Malformed) \in {source.db_configs, source.db_config,
                          source.env["DB_CONFIGS"], source.env["DB_CONFIG"]}

\* C8, as amended: the loader fails and returns no registry when the
\* multi-database payload it uses decodes to an empty array or to a value
\* that is no list, when an element of the array lacks db_type, configuration
\* or description, when neither an array nor a single configuration is
\* supplied, and when the payload it decodes is malformed
Thm_C8 ==
    (/\ pc # "import"
     /\ \/ Truthy(ResolvedConfigs(source)) /\ BadArray(ResolvedConfigs(source))
        \/ NothingSupplied
        \/ MalformedUsed)
    => LoadFailed

\* the single configuration is malformed, is the payload the loader decodes,
\* and the loader failed on it
Wit_C8 ==
    /\ LoadFailed
    /\ ~Truthy(ResolvedConfigs(source))
    /\ SinglePayload = PyStr(Malformed)
    /\ ret.out.exc.type = "JSONDecodeError"

\* C8, as stated: the loader fails when the multi-database payload decodes
\* to an empty array or to a value that is no list, when an element lacks a
\* field, when nothing is supplied, or when a JSON payload is malformed
Claim_C8 ==
    (/\ pc # "import"
     /\ \/ source.db_configs # PyNone /\ BadArray(source.db_configs)
        \/ Truthy(ResolvedConfigs(source)) /\ BadArray(ResolvedConfigs(source))
        \/ NothingSupplied
        \/ MalformedAny)
    => LoadFailed

\* the database_id get_schema was given
SchemaArg == ret.args[1]

\* database_id is omitted, "all" or a registered id
KnownArg ==
    SchemaArg = PyNone \/ SchemaArg = PyStr("all") \/ RegHas(config_map, SchemaArg.s)

\* the text is a JSON array whose i-th entry carries the error of the i-th
\* engine call when that call raised
ArrayWithErrors(text, calls) ==
    LET decoded == JsonLoads(text)
    IN  /\ ~decoded.raised
        /\ IsList(decoded.val)
        /\ Len(decoded.val.items) = Len(calls)
        /\ \A i \in 1..Len(calls) :
             calls[i].out.raised
             => /\ IsDict(decoded.val.items[i])
                /\ DictGet(decoded.val.items[i], "error", PyNone)
                   = PyStr(calls[i].out.exc.msg)
                /\ ~DictHas(decoded.val.items[i], "schema")

\* C9, as amended: for database_id omitted, "all" or a registered id, and
\* every engine outcome, get_schema raises nothing and returns a string that
\* is a JSON array; a failed schema fetch is an entry with an error field
Thm_C9 ==
    (Responded("get_schema") /\ KnownArg)
    => /\ ~ret.out.raised
       /\ IsStr(ret.out.val)
       /\ ArrayWithErrors(ret.out.val.s, engine_calls)

\* one registered database is asked for and its fetch fails
Wit_C9 ==
    /\ Responded("get_schema")
    /\ SchemaArg \notin {PyNone, PyStr("all")}
    /\ RegHas(config_map, SchemaArg.s)
    /\ Len(engine_calls) = 1
    /\ engine_calls[1].out.raised

\* C9, as stated: for every database_id, an unknown id included, get_schema
\* raises nothing and returns a string that is a JSON array
Claim_C9 ==
    Responded("get_schema")
    => /\ ~ret.out.raised
       /\ IsStr(ret.out.val)
       /\ LET decoded == JsonLoads(ret.out.val.s)
          IN  ~decoded.raised /\ IsList(decoded.val)

\* the entry of a descriptor: id, description, db_type, and the schema the
\* engine returned or the text of the exception it raised
ExpectedEntry(db_config, out) ==
    PyDict(<< <<"id", PyStr(db_config.id)>>,
              <<"description", PyStr(db_config.description)>>,
              <<"db_type", PyStr(db_config.db_type)>>,
              IF out.raised THEN <<"error", PyStr(out.exc.msg)>> ELSE <<"schema", out.val>> >>)

\* C10: with database_id omitted or "all", get_schema asks every connection
\* once and returns one entry per descriptor in registry order, each with id,
\* description, db_type and either schema or error, a failed fetch leaving
\* the other entries as they are; with a registered id it returns the one
\* entry of that descriptor
Thm_C10 ==
    (Responded("get_schema") /\ KnownArg)
    => IF SchemaArg \in {PyNone, PyStr("all")}
       THEN /\ Len(engine_calls) = Len(config_map)
            /\ \A i \in 1..Len(config_map) :
                 engine_calls[i].h = config_map[i].query_runner.h
            /\ JsonLoads(ret.out.val.s)
               = Returned(PyList([i \in 1..Len(config_map) |->
                                    ExpectedEntry(config_map[i], engine_calls[i].out)]))
       ELSE /\ Len(engine_calls) = 1
            /\ engine_calls[1].h = RegGet(config_map, SchemaArg.s).query_runner.h
            /\ JsonLoads(ret.out.val.s)
               = Returned(PyList(<<ExpectedEntry(RegGet(config_map, SchemaArg.s),
                                                 engine_calls[1].out)>>))

\* every schema is asked for, the first fetch fails and the second succeeds
Wit_C10 ==
    /\ Responded("get_schema")
    /\ SchemaArg = PyStr("all")
    /\ Len(config_map) = 2
    /\ Len(engine_calls) = 2
    /\ engine_calls[1].out.raised
    /\ ~engine_calls[2].out.raised

\* the positions of the line feeds of s
Breaks(s) == {i \in 1..Len(s) : CharAt(s, i) = "\n"}

\* the k-th smallest member of a set of numbers
Nth(b, k) == CHOOSE i \in b : Cardinality({j \in b : j < i}) = k - 1

\* the text between the (k-1)-th and the k-th of the line feeds b of s
LineOf(s, b, k) ==
    SubSeq(s, IF k = 1 THEN 1 ELSE Nth(b, k - 1) + 1,
              IF k = Cardinality(b) + 1 THEN Len(s) ELSE Nth(b, k) - 1)

\* the lines of a text: s split at every line feed
Lines(s) ==
    LET b == Breaks(s)
    IN  [k \in 1..(Cardinality(b) + 1) |-> LineOf(s, b, k)]

\* the cached schema of db_config has a table of exactly this name
HasTable(db_config, table_name) ==
    /\ IsList(db_config.schema)
    /\ \E i \in 1..Len(db_config.schema.items) :
          DictGet(db_config.schema.items[i], "name", PyNone) = PyStr(table_name)

\* the descriptors find_table has to name, in registry order
Holders(table_name) == SelectSeq(config_map, LAMBDA c : HasTable(c, table_name))

\* C11: find_table names exactly the descriptors whose cached schema has a
\* table of exactly the requested name, each once and in registry order;
\* descriptors without a cached schema are skipped without error, and when no
\* descriptor matches the result is the not-found message
Thm_C11 ==
    Responded("find_table")
    => LET name == ret.args[1].s
           hits == Holders(name)
           ls == Lines(ret.out.val.s)
       IN /\ ~ret.out.raised
          /\ hits = <<>>
             => ret.out.val.s = "Table '" \o name \o "' was not found in any database schema."
          /\ hits # <<>>
             => /\ Len(ls) = Len(hits) + 2
                /\ ls[1] = "Table '" \o name \o "' was found in the following databases:"
                /\ \A i \in 1..Len(hits) :
                      ls[i + 1] = "- Database ID: " \o hits[i].id \o " - "
                                  \o hits[i].description
                                  \o " (Type: " \o hits[i].db_type \o ")"
                /\ ls[Len(ls)] = ""

\* of two databases the first has no cached schema and the second has two
\* tables of the requested name: the second alone is named
Wit_C11 ==
    /\ Responded("find_table")
    /\ Len(config_map) = 2
    /\ config_map[1].schema = PyNone
    /\ config_map[2].schema = WideSchema
    /\ Holders(ret.args[1].s) = <<config_map[2]>>
    /\ Len(Lines(ret.out.val.s)) = 3

\* both databases have the table: both are named
Wit_C11_Both ==
    /\ Responded("find_table")
    /\ Len(Holders(ret.args[1].s)) = 2

\* execute_query_json has just returned the text of a result, not of an error
JsonSucceeded == Responded("execute_query_json") /\ ~IsErrorText(ret.out.val)

\* the columns and the rows of the result the engine gave to the last call
EngineColumns == DictGet(engine_calls[1].out.val, "columns", PyList(<<>>)).items
EngineRows == DictGet(engine_calls[1].out.val, "rows", PyList(<<>>))

\* the raw names of the columns the engine returned
EngineNames == {DictGet(EngineColumns[i], "name", PyStr("")) : i \in 1..Len(EngineColumns)}

\* the text is a JSON object whose rows are the engine's row maps and whose
\* row_count is their number
RowsRoundTrip(text) ==
    LET decoded == JsonLoads(text)
    IN  /\ ~decoded.raised
        /\ IsDict(decoded.val)
        /\ DictGet(decoded.val, "rows", PyNone) = EngineRows
        /\ DictGet(decoded.val, "row_count", PyNone) = PyInt(Len(EngineRows.items))

\* the columns list of the JSON object in text
JsonColumns(text) == DictGet(JsonLoads(text).val, "columns", PyNone)

\* C12, as amended: for every successful execute_query_json call the returned
\* JSON object has row_count equal to the length of its rows list, rows equal
\* to the engine's list of row maps, and a columns list with one entry for
\* every column the engine returned, the displayed name of that column; its
\* length is the number of distinct column names when no two columns share a
\* name
Thm_C12 ==
    JsonSucceeded
    => LET columns == JsonColumns(ret.out.val.s)
       IN  /\ RowsRoundTrip(ret.out.val.s)
           /\ IsList(columns)
           /\ Len(columns.items) = Len(EngineColumns)
           /\ \A i \in 1..Len(EngineColumns) :
                 columns.items[i]
                 = DictGet(EngineColumns[i], "friendly_name",
                           DictGet(EngineColumns[i], "name", PyStr("")))
           /\ Cardinality(EngineNames) = Len(EngineColumns)
              => Len(columns.items) = Cardinality(EngineNames)

\* a result of more rows than a table shows came back whole, its two columns
\* of different names
Wit_C12 ==
    /\ JsonSucceeded
    /\ Len(EngineRows.items) > DisplayRows
    /\ Cardinality(EngineNames) = 2
    /\ RowsRoundTrip(ret.out.val.s)

\* C12, as stated: for every successful execute_query_json call, row_count is
\* the length of rows, rows are the engine's row maps, and the length of the
\* columns list is the number of distinct column names the engine returned
Claim_C12 ==
    JsonSucceeded
    => /\ RowsRoundTrip(ret.out.val.s)
       /\ IsList(JsonColumns(ret.out.val.s))
       /\ Len(JsonColumns(ret.out.val.s).items) = Cardinality(EngineNames)

\* execute_query has just returned the text of a result, not of an error
QuerySucceeded == Responded("execute_query") /\ ~IsErrorText(ret.out.val)

\* a row map as a table row: its values under the raw names of the engine's
\* columns, in the order of those columns
RowText(row) ==
    Join(" | ", [j \in 1..Len(EngineColumns) |->
                   Str(DictGet(row, Str(DictGet(EngineColumns[j], "name", PyStr(""))),
                               PyNone))])

\* C13: for an engine result of R rows execute_query renders exactly
\* min(R, 10) data rows, the first ones in engine order; for R > 10 the output
\* ends with a suffix reporting R - 10 more rows and the total R, for R <= 10
\* it has no such suffix
Thm_C13 ==
    QuerySucceeded
    => LET ls == Lines(ret.out.val.s)
           R == Len(EngineRows.items)
           shown == IF R < 10 THEN R ELSE 10
       IN  /\ Len(ls) = 6 + (IF R = 0 THEN 1 ELSE shown) + (IF R > 10 THEN 2 ELSE 0)
           /\ \A i \in 1..shown : ls[6 + i] = RowText(EngineRows.items[i])
           /\ R = 0 => ls[7] = ""
           /\ R > 10
              => /\ ls[Len(ls) - 1] = ""
                 /\ ls[Len(ls)] = "... and " \o IntToStr(R - 10)
                                  \o " more rows (total: " \o IntToStr(R) \o ")"
           /\ R <= 10 => ~Contains(ret.out.val.s, "more rows")

\* a result of eleven rows is cut after the tenth
Wit_C13 ==
    /\ QuerySucceeded
    /\ Len(EngineRows.items) = 11
    /\ Len(Lines(ret.out.val.s)) = 18

\* a result of exactly ten rows is shown whole
Wit_C13_Ten ==
    /\ QuerySucceeded
    /\ Len(EngineRows.items) = 10
    /\ Len(Lines(ret.out.val.s)) = 16

\* C14: the header of execute_query shows for each engine column its
\* friendly_name when it has one and its raw name otherwise, in engine column
\* order; every rendered row lists, in that column order, the values the row
\* map holds under the raw names, whatever the key order of the row map
Thm_C14 ==
    QuerySucceeded
    => LET ls == Lines(ret.out.val.s)
       IN  /\ ls[5] = Join(" | ",
                           [j \in 1..Len(EngineColumns) |->
                              IF DictHas(EngineColumns[j], "friendly_name")
                              THEN Str(DictGet(EngineColumns[j], "friendly_name", PyNone))
                              ELSE Str(DictGet(EngineColumns[j], "name", PyNone))])
           /\ \A i \in 1..Len(EngineRows.items) :
                 i <= 10 => ls[6 + i] = RowText(EngineRows.items[i])

\* a column with a friendly name heads a row map whose keys are in another
\* order than the columns
Wit_C14 ==
    /\ QuerySucceeded
    /\ DictHas(EngineColumns[1], "friendly_name")
    /\ ~DictHas(EngineColumns[2], "friendly_name")
    /\ EngineRows.items[1].kv[1][1] = "name"
    /\ DictGet(EngineColumns[1], "name", PyNone) = PyStr("id")
    /\ Lines(ret.out.val.s)[5] = "ID | name"
    /\ Lines(ret.out.val.s)[7] = "1 | Alice"

\* get_table_sample has just returned for a registered id
Sampled == Responded("get_table_sample") /\ RegHas(config_map, ret.args[2].s)

\* C15: for every integer limit get_table_sample sends the engine the query
\* "SELECT * FROM {table} LIMIT {min(limit, 100)}", so that the LIMIT never
\* exceeds 100; it renders every row the engine returns, with no cut at 10
\* rows, and adds "No data found in table." exactly when the engine returns
\* no rows
Thm_C15 ==
    Sampled
    => LET limit == ret.args[3].n
           ls == Lines(ret.out.val.s)
           R == Len(EngineRows.items)
       IN  /\ Len(engine_calls) = 1
           /\ engine_calls[1].method = "run_query"
           /\ engine_calls[1].arg = "SELECT * FROM " \o ret.args[1].s \o " LIMIT "
                                     \o IntToStr(IF limit <= 100 THEN limit ELSE 100)
           /\ ~IsErrorText(ret.out.val)
              => /\ R > 0 => /\ Len(ls) = 4 + R
                             /\ ~Contains(ret.out.val.s, "No data found in table.")
                 /\ R = 0 => /\ Len(ls) = 7
                             /\ ls[5] = "" /\ ls[6] = ""
                             /\ ls[7] = "No data found in table."

\* a limit above 100 is cut to 100 and the eleven rows the engine returns
\* are all rendered
Wit_C15 ==
    /\ Sampled
    /\ ret.args[3].n = 150
    /\ ~IsErrorText(ret.out.val)
    /\ Len(EngineRows.items) = 11
    /\ Len(Lines(ret.out.val.s)) = 15
    /\ engine_calls[1].arg = "SELECT * FROM users LIMIT 100"

\* the engine returns no rows
Wit_C15_Empty ==
    /\ Sampled
    /\ ~IsErrorText(ret.out.val)
    /\ EngineRows.items = <<>>

\* get_database_info has just returned for one registered id
InfoOfKnown ==
    /\ Responded("get_database_info")
    /\ ret.args[1] # PyNone
    /\ RegHas(config_map, ret.args[1].s)

\* the descriptor get_database_info was asked about
InfoConfig == RegGet(config_map, ret.args[1].s)

\* the lines of the schema summary in the text of get_database_info: those
\* after the id, description, type and "Schema Summary:" lines
SummaryLines ==
    LET ls == Lines(ret.out.val.s)
    IN  IF Len(ls) >= 4 /\ ls[4] = "Schema Summary:" THEN SubSeq(ls, 5, Len(ls)) ELSE <<>>

\* C16: get_database_schema_summary is exactly "Schema information not
\* available" when the descriptor's schema is absent and exactly "No tables
\* found in schema" when the schema is an empty table list; the two cases are
\* never confused
Thm_C16 ==
    InfoOfKnown
    => /\ ~ret.out.raised
       /\ InfoConfig.schema = PyNone
          => SummaryLines = <<"Schema information not available">>
       /\ InfoConfig.schema = PyList(<<>>)
          => SummaryLines = <<"No tables found in schema">>

\* the summary of a descriptor whose cached schema is an empty table list
Wit_C16 ==
    /\ InfoOfKnown
    /\ InfoConfig.schema = PyList(<<>>)
    /\ SummaryLines = <<"No tables found in schema">>

\* the summary of a descriptor whose schema fetch failed
Wit_C16_Absent ==
    /\ InfoOfKnown
    /\ InfoConfig.schema = PyNone
    /\ SummaryLines = <<"Schema information not available">>

\* the line of a table in a summary: its name and the names of its first
\* five columns, followed by ", ..." when it has more
ExpectedTableLine(table) ==
    LET columns == DictGet(table, "columns", PyList(<<>>)).items
        C == Len(columns)
    IN  "- " \o DictGet(table, "name", PyNone).s \o " ("
        \o Join(", ", [j \in 1..(IF C < 5 THEN C ELSE 5) |->
                         DictGet(columns[j], "name", PyNone).s])
        \o (IF C > 5 THEN ", ..." ELSE "") \o ")"

\* C17: for a schema of T tables get_database_schema_summary lists the first
\* min(T, 10) tables, one line each; a line shows the table's first min(C, 5)
\* column names and ends with ", ..." exactly when the table has C > 5
\* columns; for T > 10 the summary ends with exactly one line "... and
\* {T - 10} more tables", for T <= 10 it has no such line
Thm_C17 ==
    (InfoOfKnown /\ Truthy(InfoConfig.schema))
    => LET tables == InfoConfig.schema.items
           T == Len(tables)
           shown == IF T < 10 THEN T ELSE 10
           lines == SummaryLines
       IN  /\ ~ret.out.raised
           /\ Len(lines) = shown + (IF T > 10 THEN 1 ELSE 0)
           /\ \A i \in 1..shown : lines[i] = ExpectedTableLine(tables[i])
           /\ T > 10 => lines[shown + 1] = "... and " \o IntToStr(T - 10) \o " more tables"
           /\ T <= 10 => ~Contains(ret.out.val.s, "more tables")

\* a schema of twelve tables, among the first ten a table of five columns and
\* a table of six
Wit_C17 ==
    /\ InfoOfKnown
    /\ Truthy(InfoConfig.schema)
    /\ Len(InfoConfig.schema.items) = 12
    /\ Len(SummaryLines) = 11
    /\ SummaryLines[8] = "- t6 (c1, c2, c3, c4, c5)"
    /\ SummaryLines[9] = "- t7 (c1, c2, c3, c4, c5, ...)"
    /\ SummaryLines[11] = "... and 2 more tables"

\* a schema of exactly ten tables
Wit_C17_Ten ==
    /\ InfoOfKnown
    /\ Truthy(InfoConfig.schema)
    /\ Len(InfoConfig.schema.items) = 10
    /\ Len(SummaryLines) = 10

\* the line of list_databases for a descriptor, with the table count when
\* counted holds
ExpectedDatabaseLine(db_config, counted) ==
    "ID: " \o db_config.id \o " - " \o db_config.description
    \o " (Type: " \o db_config.db_type \o ")"
    \o (IF counted THEN " - " \o IntToStr(Len(db_config.schema.items)) \o " tables" ELSE "")

\* C18: list_databases returns "No database connections available." when the
\* registry is empty; otherwise it renders one line per descriptor, in
\* registry order, with id, description and type, and the line carries a
\* table count if and only if the descriptor's schema is present
Claim_C18 ==
    Responded("list_databases")
    => /\ ~ret.out.raised
       /\ config_map = <<>> => ret.out.val.s = "No database connections available."
       /\ config_map # <<>>
          => Lines(ret.out.val.s)
             = <<"Available databases:">>
               \o [i \in 1..Len(config_map) |->
                     ExpectedDatabaseLine(config_map[i], config_map[i].schema # PyNone)]

\* the text get_query_history has to return for a history
HistoryShown(text, history) ==
    /\ history = <<>> <=> text = "No query history available"
    /\ history # <<>>
       => Lines(text) = <<"Query History:">>
                        \o [i \in 1..Len(history) |-> "- " \o history[i]]
                        \o <<"">>

\* C19: get_query_history returns "No query history available" exactly when
\* the history is empty; otherwise it renders exactly one line per history
\* entry, in the order the entries were appended; it changes neither the
\* history nor any other state of the session
Thm_C19 ==
    [][(pc = "serving" /\ pc' = "responded" /\ ret'.op = "get_query_history")
       => /\ ~ret'.out.raised
          /\ HistoryShown(ret'.out.val.s, query_history)
          /\ UNCHANGED <<last_query, last_result, query_history, config_map>>
          /\ engine_calls' = <<>>]_vars

\* the history of two different entries has been rendered
Wit_C19 ==
    /\ Responded("get_query_history")
    /\ Len(query_history) = 2
    /\ query_history[1] # query_history[2]
    /\ Len(Lines(ret.out.val.s)) = 4

\* the empty history has been asked for
Wit_C19_Empty ==
    /\ Responded("get_query_history")
    /\ query_history = <<>>

\* loading is over and has given a registry
AfterLoading == pc \notin {"import", "exited"}

\* C20: loading constructs exactly one connection handle per descriptor, with
\* that descriptor's db_type and configuration, and in every state after
\* loading (after the start-up schema fetch, the start-up connection test and
\* any sequence of dispatch calls) each descriptor still holds the handle
\* constructed for it: none is replaced or cleared
Claim_C20 ==
    AfterLoading
    => /\ Len(made) = Len(config_map)
       /\ \A i \in 1..Len(config_map) :
             /\ config_map[i].query_runner = made[i]
             /\ made[i].db_type = config_map[i].db_type
             /\ made[i].configuration = config_map[i].configuration

\* the start-up schema fetch loop is over
FetchesDone == pc \in {"lifespan", "serving", "responded"} /\ config_map # <<>>

\* a query call has just returned for a registered id
QueriedKnown ==
    /\ pc = "responded"
    /\ ret.op \in {"execute_query", "execute_query_json"}
    /\ RegHas(config_map, QueryDbId)

\* C21: after a successful load start-up attempts exactly one schema fetch
\* for every descriptor; a failed fetch leaves that descriptor's schema
\* absent, the fetches of the remaining descriptors are still attempted,
\* start-up completes (the loop never stops early and never exits), and the
\* descriptor whose fetch failed stays in the registry and its connection
\* takes queries
Thm_C21 ==
    /\ pc = "fetch"
       => /\ fetch_i <= Len(config_map)
          /\ Len(fetched) = fetch_i - 1
    /\ FetchesDone
       => /\ Len(fetched) = Len(config_map)
          /\ \A i \in 1..Len(config_map) :
                /\ fetched[i].h = config_map[i].query_runner.h
                /\ fetched[i].ok <=> config_map[i].schema # PyNone
    /\ pc = "exited" => fetched = <<>>
    /\ QueriedKnown
       => /\ Len(engine_calls) = 1
          /\ engine_calls[1].method = "run_query"
          /\ engine_calls[1].h = RegGet(config_map, QueryDbId).query_runner.h

\* the fetch of the first of two databases failed, the second was fetched,
\* and a query on the first database has given a result
Wit_C21 ==
    /\ QueriedKnown
    /\ ~IsErrorText(ret.out.val)
    /\ Len(config_map) = 2
    /\ fetched = <<[h |-> config_map[1].query_runner.h, ok |-> FALSE],
                   [h |-> config_map[2].query_runner.h, ok |-> TRUE]>>
    /\ config_map[1].schema = PyNone
    /\ QueryDbId = config_map[1].id

\* init_config raises for this configuration source whatever the engine does
MustFail == \A failAt \in 0..MaxConfigs : init_config(source, failAt).raised

\* the process has left the import of the module behind and starts up
Running == pc \in {"fetch", "lifespan"}

\* C22: if configuration loading fails (an invalid configuration, or a
\* connection handle that cannot be constructed) the process exits before any
\* schema fetch is attempted and before any operation is served; it never
\* goes on with a partial or an empty registry
Thm_C22 ==
    /\ (ret.op = "init_config" /\ ret.out.raised)
       => /\ pc = "exited"
          /\ config_map = <<>>
          /\ fetched = <<>>
          /\ engine_calls = <<>>
          /\ query_history = <<>>
    /\ pc = "exited" => ret.op = "init_config" /\ ret.out.raised
    /\ (Running /\ MustFail) => config_map = <<>> /\ made = <<>>
    /\ (Running /\ made # <<>>)
       => RegIds(config_map) = RegIds(init_config(source, 0).val)

\* the second connection handle of a descriptor array could not be
\* constructed: the process has exited with one handle made
Wit_C22 ==
    /\ pc = "exited"
    /\ ret.op = "init_config" /\ ret.out.raised
    /\ Len(made) = 1
    /\ ~MustFail

\* nothing is configured: the process has exited
Wit_C22_Invalid ==
    /\ pc = "exited"
    /\ MustFail

\* what identifies the entries of a registry: ids, types, descriptions,
\* configurations and connections, in registry order
Identity(reg) ==
    [i \in 1..Len(reg) |->
        [id |-> reg[i].id, db_type |-> reg[i].db_type,
         description |-> reg[i].description,
         configuration |-> reg[i].configuration,
         query_runner |-> reg[i].query_runner]]

\* C23: after start-up no dispatch operation adds, removes or reorders
\* registry entries or changes a descriptor's id, db_type, description or
\* configuration; get_schema, which fetches a fresh schema from the engine,
\* does not either
Thm_C23 ==
    [][(pc = "serving" \/ pc = "responded")
       => Identity(config_map') = Identity(config_map)]_vars

\* get_schema has fetched the schemas of two databases from the engine in a
\* session that has run queries
Wit_C23 ==
    /\ Responded("get_schema")
    /\ Len(engine_calls) = 2
    /\ Len(config_map) = 2
    /\ query_history # <<>>

\* a query on a registered database has failed on the engine
Wit_C23_Failed ==
    /\ QueriedKnown
    /\ IsErrorText(ret.out.val)
    /\ engine_calls # <<>>
    /\ Len(config_map) = 2

\* the operations that run a query for the client
QueryOps == {"execute_query", "execute_query_json"}

\* C26: only execute_query and execute_query_json change the history,
\* last_query or last_result of the session; every other operation,
\* get_table_sample with its query on the engine included, leaves all three
\* unchanged
Thm_C26 ==
    [][<<last_query, last_result, query_history>>'
          # <<last_query, last_result, query_history>>
       => pc = "serving" /\ pc' = "responded" /\ ret'.op \in QueryOps]_vars

\* get_table_sample has run its query on the engine in a session whose last
\* query is another one
Wit_C26 ==
    /\ Responded("get_table_sample")
    /\ Len(engine_calls) = 1
    /\ engine_calls[1].method = "run_query"
    /\ query_history # <<>>
    /\ last_query # PyStr(engine_calls[1].arg)

\* an explicit single db_type and configuration are supplied and no explicit
\* multi-database configuration is
ExplicitSingle ==
    /\ Truthy(source.db_type)
    /\ Truthy(source.db_config)
    /\ ~Truthy(source.db_configs)

\* the load has ended as the load of the same arguments ends when no
\* environment variable is set
LoadedAsWithout(failAt) ==
    IF pc = "exited"
    THEN /\ init_config([source EXCEPT !.env = NoEnv], failAt).raised
         /\ init_config([source EXCEPT !.env = NoEnv], failAt).made = made
    ELSE /\ ~init_config([source EXCEPT !.env = NoEnv], failAt).raised
         /\ init_config([source EXCEPT !.env = NoEnv], failAt).val = config_map

\* C24: the loader resolves its configuration sources in the order explicit
\* multi-database configuration, explicit single-database configuration,
\* environment variables: whenever an explicit single db_type and
\* configuration are supplied and no explicit multi-database configuration
\* is, the registry is built from the explicit single configuration,
\* whatever the environment variables hold
Claim_C24 ==
    (ExplicitSingle /\ pc \in {"fetch", "exited"})
    => \E failAt \in 0..MaxConfigs : LoadedAsWithout(failAt)

\* this step is a call of execute_query or execute_query_json
QueryStep == pc = "serving" /\ pc' = "responded" /\ ret'.op \in QueryOps

\* the session after this step is the session before it with the query of
\* the call recorded for the database of the call
RecordedStep ==
    /\ last_query' = ret'.args[1]
    /\ last_result' = engine_calls'[1].out.val
    /\ query_history'
       = Append(query_history,
                HistoryEntry(ret'.args[2].s,
                             RegGet(config_map, ret'.args[2].s).description,
                             ret'.args[1].s))

\* C25, as stated: every call of execute_query or execute_query_json that
\* returns an error string leaves history, last_query and last_result as
\* they were before the call
Claim_C25 ==
    [][(QueryStep /\ IsErrorText(ret'.out.val))
       => UNCHANGED <<last_query, last_result, query_history>>]_vars

\* C25, as amended: a call of execute_query or execute_query_json leaves
\* history, last_query and last_result as they were, and returns an error
\* string, when the id is unknown or run_query raised; when run_query
\* returned, the query is recorded whether the call then returns a result
\* or an error string
Thm_C25 ==
    [][QueryStep
       => IF engine_calls' = <<>> \/ engine_calls'[1].out.raised
          THEN /\ UNCHANGED <<last_query, last_result, query_history>>
               /\ IsErrorText(ret'.out.val)
          ELSE RecordedStep]_vars

\* run_query returned a value that could not be formatted: the call has
\* returned an error string and the query is the last one of the history
Wit_C25 ==
    /\ QueriedKnown
    /\ IsErrorText(ret.out.val)
    /\ ~engine_calls[1].out.raised
    /\ last_query = ret.args[1]
    /\ query_history # <<>>

\* run_query raised in a session with one recorded query: the call has
\* returned an error string
Wit_C25_Raised ==
    /\ QueriedKnown
    /\ IsErrorText(ret.out.val)
    /\ engine_calls[1].out.raised
    /\ Len(query_history) = 1

\* s ends with suf
EndsWith(s, suf) ==
    Len(suf) <= Len(s) /\ SubSeq(s, Len(s) - Len(suf) + 1, Len(s)) = suf

\* the last entry of the history ends with the text of last_query
LastEntryAgrees ==
    /\ IsStr(last_query)
    /\ EndsWith(query_history[Len(query_history)], "] " \o last_query.s)

\* a query call has just returned after run_query returned: the session
\* holds the query and the engine result of this call
SameCall ==
    /\ last_query = ret.args[1]
    /\ last_result = engine_calls[1].out.val
    /\ query_history[Len(query_history)]
       = HistoryEntry(QueryDbId, RegGet(config_map, QueryDbId).description,
                      ret.args[1].s)

Wit_C27_None ==
    /\ QueriedKnown
    /\ ~engine_calls[1].out.raised
    /\ query_history # <<>>
    /\ last_result = PyNone

\* the operations that take a database id
IdOps ==
    {"get_database_info", "get_schema", "execute_query", "execute_query_json",
     "get_table_columns", "get_table_types", "describe_table", "get_table_sample"}

\* the database id the operation that has just returned was called with
IdArg == IF ret.op \in {"get_database_info", "get_schema"} THEN ret.args[1] ELSE ret.args[2]

\* an operation that takes a database id has just returned for an id that is
\* not in the registry
UnknownAsked ==
    /\ pc = "responded"
    /\ ret.op \in IdOps
    /\ IsStr(IdArg)
    /\ ~RegHas(config_map, IdArg.s)
    /\ ~(ret.op = "get_schema" /\ IdArg.s = "all")

\* C28: every operation that takes a database id, given an id that is not in
\* the registry, returns a string that contains "Invalid database ID" and the
\* id, and calls no method of any connection
Thm_C28 ==
    UnknownAsked
    => /\ ~ret.out.raised
       /\ IsStr(ret.out.val)
       /\ Contains(ret.out.val.s, "Invalid database ID")
       /\ Contains(ret.out.val.s, IdArg.s)
       /\ engine_calls = <<>>

\* describe_table was called with an unknown id on a registry of two
\* databases
Wit_C28 ==
    /\ UnknownAsked
    /\ ret.op = "describe_table"
    /\ Len(config_map) = 2

\* get_table_types was called with an unknown id; its message comes from the
\* handler of the ValueError it raises for itself
Wit_C28_Types ==
    /\ UnknownAsked
    /\ ret.op = "get_table_types"
    /\ StartsWith(ret.out.val.s, "Error getting types")

\* the result the engine returned is a dict of a list of column dicts and a
\* list of at least one and at most DisplayRows row maps
SmallRowMaps(result) ==
    /\ IsDict(result)
    /\ IsList(DictGet(result, "columns", PyList(<<>>)))
    /\ IsList(DictGet(result, "rows", PyList(<<>>)))
    /\ \A i \in 1..Len(DictGet(result, "columns", PyList(<<>>)).items) :
          IsDict(DictGet(result, "columns", PyList(<<>>)).items[i])
    /\ \A i \in 1..Len(DictGet(result, "rows", PyList(<<>>)).items) :
          IsDict(DictGet(result, "rows", PyList(<<>>)).items[i])
    /\ Len(DictGet(result, "rows", PyList(<<>>)).items) \in 1..DisplayRows

\* the text execute_query returns for this engine result on the database
\* that was sampled
QueryTextOf(result) ==
    execute_query(config_map, Ctx, "SELECT 1", ret.args[2].s, Returned(result)).out.val.s

\* C29: for the same engine result of at most 10 rows given as row maps,
\* get_table_sample and execute_query render the same header and the same
\* cell values in every row, also when the friendly_name of a column differs
\* from its name
Claim_C29 ==
    (Sampled /\ engine_calls # <<>> /\ ~engine_calls[1].out.raised
     /\ SmallRowMaps(engine_calls[1].out.val))
    => LET sample == Lines(ret.out.val.s)
           query == Lines(QueryTextOf(engine_calls[1].out.val))
           R == Len(DictGet(engine_calls[1].out.val, "rows", PyList(<<>>)).items)
       IN  /\ Len(sample) = 4 + R
           /\ Len(query) = 6 + R
           /\ sample[3] = query[5]
           /\ \A k \in 1..R : sample[4 + k] = query[6 + k]

\* the load of a descriptor array failed because an element lacks a required
\* field (line 82)
FieldMissing ==
    /\ pc = "exited"
    /\ ret.out.raised
    /\ ret.out.exc.msg
       = "Each DB_CONFIG must contain db_type, configuration, and description"

\* C30: when the load of a descriptor array fails because an element lacks a
\* required field, no connection handle has been constructed for any element
\* of the array: the validation of all elements precedes the construction of
\* any connection
Claim_C30 == FieldMissing => made = <<>>


=============================================================================
